---------------------------- MODULE Spec2Model ----------------------------
(***************************************************************************)
(* The FERS scenario transcoder (packages/fers-ui/src-tauri/src):          *)
(* generate_xml_from_state writes a ScenarioState as a FERS XML document,  *)
(* parse_xml_to_state reads a document back into a ScenarioState.          *)
(*                                                                         *)
(* A document is the sequence of XML events the quick_xml Writer emits and *)
(* the quick_xml Reader yields (Decl, DocType, Start, End, Empty, Text).   *)
(* An Option<T> is a sequence of length 0 (None) or 1 (Some(v)).  An f64   *)
(* or i64 is an integer; its text is produced by NumToString and read back *)
(* by ParseNum.  A struct is a record with the struct's field names; a     *)
(* serde-tagged enum is a record whose "type" field holds the serde tag.   *)
(***************************************************************************)
EXTENDS Integers, Sequences, FiniteSets, TLC

VARIABLES
    pc,           \* "idle" | "writing" | "returned": where the caller stands
    calls,        \* the transcoder calls made so far, in order
    scenario,     \* argument of generate_xml_from_state (Option<ScenarioState>)
    writer,       \* events written to the Writer's buffer by the running call
    genResult,    \* Option<Result<String, String>> returned by generate_xml_from_state
    xml_content,  \* argument of parse_xml_to_state (Option<document>)
    parseResult,  \* Option<Result<String, String>> returned by parse_xml_to_state
    mutex,        \* the Mutex of FersState: [holder: Option<thread>, poisoned]
    context,      \* the scenario the FersContext inside the Mutex holds
    threads,      \* one record per command invocation and the thread serving it
    emitted       \* the events emitted to the frontend so far, in order

transcoderVars == <<pc, calls, scenario, writer, genResult, xml_content, parseResult>>
appVars == <<mutex, context, threads, emitted>>
vars == <<pc, calls, scenario, writer, genResult, xml_content, parseResult,
          mutex, context, threads, emitted>>

---------------------------------------------------------------------------
(* Option<T>                                                               *)

None == <<>>
Some(v) == <<v>>
IsSome(o) == o # <<>>
IsNone(o) == o = <<>>
Unwrap(o) == o[1]

(* Result<String, String>: exactly one of the payloads is meaningful.      *)
Ok(v) == [ok |-> TRUE, value |-> Some(v), err |-> ""]
Err(e) == [ok |-> FALSE, value |-> None, err |-> e]

\* Concatenation of a sequence of sequences.
RECURSIVE Flatten(_)
Flatten(ss) ==
    IF ss = <<>> THEN <<>> ELSE Head(ss) \o Flatten(Tail(ss))

---------------------------------------------------------------------------
(* Text conversions: to_string() of f64 / i64 / u64 / bool and their       *)
(* FromStr counterparts used by the quick_xml deserializer.                *)

\* The numbers whose text FromStr recognises in this model.
NumDomain == -5 .. 20

NumToString(v) == ToString(v)

\* str::parse::<f64>() / ::<i64>(): None when the text is no number.
ParseNum(s) ==
    IF \E v \in NumDomain : ToString(v) = s
    THEN Some(CHOOSE v \in NumDomain : ToString(v) = s)
    ELSE None

\* str::parse::<u64>(): a sign is not accepted.
ParseU64(s) ==
    IF IsSome(ParseNum(s)) /\ Unwrap(ParseNum(s)) >= 0 THEN ParseNum(s) ELSE None

\* `s as u64` on an f64: saturating, negative values become 0.
AsU64(v) == IF v < 0 THEN 0 ELSE v

BoolToString(b) == IF b THEN "true" ELSE "false"

ParseBool(s) ==
    IF s \in {"true", "1"} THEN Some(TRUE)
    ELSE IF s \in {"false", "0"} THEN Some(FALSE)
    ELSE None

---------------------------------------------------------------------------
(* XML events (quick_xml::events::Event)                                   *)

Ev(t, n, a, x) == [type |-> t, name |-> n, attrs |-> a, text |-> x]
DeclEv == Ev("Decl", "", <<>>, "1.0")
DocTypeEv == Ev("DocType", "", <<>>, "simulation SYSTEM \"fers-xml.dtd\"")
StartEv(n, a) == Ev("Start", n, a, "")
EndEv(n) == Ev("End", n, <<>>, "")
EmptyEv(n, a) == Ev("Empty", n, a, "")
TextEv(x) == Ev("Text", "", <<>>, x)

\* BytesStart::push_attribute when the Option holds a value.
OptAttr(key, o) == IF IsSome(o) THEN <<<<key, Unwrap(o)>>>> ELSE <<>>

---------------------------------------------------------------------------
(* XML GENERATION (SERIALIZATION) LOGIC                                    *)

\* create_element(tag).write_text_content(value): start tag, text, end tag.
write_simple_tag(tag, value) ==
    <<StartEv(tag, <<>>), TextEv(value), EndEv(tag)>>

\* A faulty write_optional_tag: an absent value leaves an empty element.
write_optional_tag_placeholder(tag, value) ==
    write_simple_tag(tag, IF IsSome(value) THEN NumToString(Unwrap(value)) ELSE "")

\* Writes the tag only when the Option holds a value.
write_optional_tag(tag, value) ==
    IF IsSome(value) THEN write_simple_tag(tag, NumToString(Unwrap(value))) ELSE <<>>

\* <parameters> ... </parameters>
WriteParameters(p) ==
    <<StartEv("parameters", <<>>)>>
    \o write_simple_tag("starttime", NumToString(p.start))
    \o write_simple_tag("endtime", NumToString(p.end))
    \o write_simple_tag("rate", NumToString(p.rate))
    \o write_simple_tag("c", NumToString(p.c))
    \o write_optional_tag("simSamplingRate", p.simSamplingRate)
    \o write_optional_tag("randomseed",
           IF IsSome(p.random_seed) THEN Some(AsU64(Unwrap(p.random_seed))) ELSE None)
    \o write_simple_tag("adc_bits", NumToString(p.adc_bits))
    \o write_simple_tag("oversample", NumToString(p.oversample_ratio))
    \o <<EmptyEv("export", << <<"binary", BoolToString(p.export.binary)>>,
                              <<"csv", BoolToString(p.export.csv)>>,
                              <<"xml", BoolToString(p.export.xml)>> >>)>>
    \o <<EndEv("parameters")>>

WritePulse(pulse) ==
    <<StartEv("pulse",
        << <<"name", pulse.name>>,
           <<"type", IF pulse.pulseType = "cw" \/ pulse.pulseType = "continuous"
                     THEN "continuous" ELSE "file">> >>
        \o OptAttr("filename", pulse.filename))>>
    \o write_simple_tag("power", NumToString(pulse.power))
    \o write_simple_tag("carrier", NumToString(pulse.carrier))
    \o <<EndEv("pulse")>>

WriteNoiseEntry(entry) ==
    <<StartEv("noise_entry", <<>>)>>
    \o write_simple_tag("alpha", NumToString(entry.alpha))
    \o write_simple_tag("weight", NumToString(entry.weight))
    \o <<EndEv("noise_entry")>>

WriteTiming(timing) ==
    <<StartEv("timing", << <<"name", timing.name>> >>)>>
    \o write_simple_tag("frequency", NumToString(timing.frequency))
    \o write_optional_tag("freq_offset", timing.freqOffset)
    \o write_optional_tag("random_freq_offset_stdev", timing.randomFreqOffsetStdev)
    \o write_optional_tag("phase_offset", timing.phaseOffset)
    \o write_optional_tag("random_phase_offset_stdev", timing.randomPhaseOffsetStdev)
    \o Flatten([i \in DOMAIN timing.noiseEntries |-> WriteNoiseEntry(timing.noiseEntries[i])])
    \o <<EndEv("timing")>>

\* A writer that emits every parameter the antenna holds, whatever its pattern.
WriteAntennaPatternAll(antenna) ==
    write_optional_tag("alpha", antenna.alpha)
    \o write_optional_tag("beta", antenna.beta)
    \o write_optional_tag("gamma", antenna.gamma)
    \o write_optional_tag("azscale", antenna.azscale)
    \o write_optional_tag("elscale", antenna.elscale)
    \o write_optional_tag("diameter", antenna.diameter)

\* match antenna.pattern.as_str() { "sinc" => .., "gaussian" => .., ... }
WriteAntennaPattern(antenna) ==
    CASE antenna.pattern = "sinc" ->
            write_optional_tag("alpha", antenna.alpha)
            \o write_optional_tag("beta", antenna.beta)
            \o write_optional_tag("gamma", antenna.gamma)
      [] antenna.pattern = "gaussian" ->
            write_optional_tag("azscale", antenna.azscale)
            \o write_optional_tag("elscale", antenna.elscale)
      [] antenna.pattern \in {"squarehorn", "parabolic"} ->
            write_optional_tag("diameter", antenna.diameter)
      [] OTHER -> <<>>

WriteAntenna(antenna) ==
    <<StartEv("antenna",
        << <<"name", antenna.name>>, <<"pattern", antenna.pattern>> >>
        \o OptAttr("filename", antenna.filename))>>
    \o write_optional_tag("efficiency", antenna.efficiency)
    \o WriteAntennaPattern(antenna)
    \o <<EndEv("antenna")>>

\* An insert that keeps the entry a key already has.
HashMapInsertKeepFirst(map, k, v) ==
    [x \in (DOMAIN map) \cup {k} |-> IF x \in DOMAIN map THEN map[x] ELSE v]

\* HashMap::insert: a later entry with the same key replaces the earlier one.
HashMapInsert(map, k, v) ==
    [x \in (DOMAIN map) \cup {k} |-> IF x = k THEN v ELSE map[x]]

\* Iterator::collect::<HashMap<_, _>>() over a sequence of (key, value) pairs.
RECURSIVE CollectMap(_, _)
CollectMap(map, entries) ==
    IF entries = <<>> THEN map
    ELSE CollectMap(HashMapInsert(map, Head(entries)[1], Head(entries)[2]), Tail(entries))

\* A faulty lookup: a key the map does not hold gets the key itself.
HashMapGetOrKey(map, k) == IF k \in DOMAIN map THEN Some(map[k]) ELSE Some(k)

\* HashMap::get(k).cloned()
HashMapGet(map, k) == IF k \in DOMAIN map THEN Some(map[k]) ELSE None

\* A table built from the pulses alone.
id_to_name_pulses(s) ==
    CollectMap(<<>>, [i \in DOMAIN s.pulses |-> <<s.pulses[i].id, s.pulses[i].name>>])

\* pulses.chain(timings).chain(antennas) as (id, name) pairs, collected.
id_to_name(s) ==
    CollectMap(<<>>,
        [i \in DOMAIN s.pulses |-> <<s.pulses[i].id, s.pulses[i].name>>]
        \o [i \in DOMAIN s.timings |-> <<s.timings[i].id, s.timings[i].name>>]
        \o [i \in DOMAIN s.antennas |-> <<s.antennas[i].id, s.antennas[i].name>>])

\* A faulty get_name: an identifier the table does not hold is passed on as
\* if it were a name.
get_name_or_id(map, id) ==
    IF IsNone(id) THEN None
    ELSE IF Unwrap(id) \in DOMAIN map THEN Some(map[Unwrap(id)]) ELSE id

\* id.as_ref().and_then(|i| id_to_name.get(i))
get_name(map, id) == IF IsSome(id) THEN HashMapGet(map, Unwrap(id)) ELSE None

\* A faulty waypoint writer: the element is closed under another name.
WritePositionWaypointMisclosed(wp) ==
    <<StartEv("positionwaypoint", <<>>)>>
    \o write_simple_tag("x", NumToString(wp.x))
    \o write_simple_tag("y", NumToString(wp.y))
    \o write_simple_tag("altitude", NumToString(wp.altitude))
    \o write_simple_tag("time", NumToString(wp.time))
    \o <<EndEv("waypoint")>>

WritePositionWaypoint(wp) ==
    <<StartEv("positionwaypoint", <<>>)>>
    \o write_simple_tag("x", NumToString(wp.x))
    \o write_simple_tag("y", NumToString(wp.y))
    \o write_simple_tag("altitude", NumToString(wp.altitude))
    \o write_simple_tag("time", NumToString(wp.time))
    \o <<EndEv("positionwaypoint")>>

\* A writer that walks the waypoints from the last to the first.
WriteMotionPathReversed(mp) ==
    <<StartEv("motionpath", << <<"interpolation", mp.interpolation>> >>)>>
    \o Flatten([i \in DOMAIN mp.waypoints |->
                   WritePositionWaypoint(mp.waypoints[Len(mp.waypoints) + 1 - i])])
    \o <<EndEv("motionpath")>>

WriteMotionPath(mp) ==
    <<StartEv("motionpath", << <<"interpolation", mp.interpolation>> >>)>>
    \o Flatten([i \in DOMAIN mp.waypoints |-> WritePositionWaypoint(mp.waypoints[i])])
    \o <<EndEv("motionpath")>>

WriteRotationWaypoint(wp) ==
    <<StartEv("rotationwaypoint", <<>>)>>
    \o write_simple_tag("azimuth", NumToString(wp.azimuth))
    \o write_simple_tag("elevation", NumToString(wp.elevation))
    \o write_simple_tag("time", NumToString(wp.time))
    \o <<EndEv("rotationwaypoint")>>

\* match &platform.rotation { Rotation::Fixed(r) => .., Rotation::Path(r) => .. }
WriteRotation(r) ==
    IF r.type = "fixed"
    THEN <<StartEv("fixedrotation", <<>>)>>
         \o write_simple_tag("startazimuth", NumToString(r.startAzimuth))
         \o write_simple_tag("startelevation", NumToString(r.startElevation))
         \o write_simple_tag("azimuthrate", NumToString(r.azimuthRate))
         \o write_simple_tag("elevationrate", NumToString(r.elevationRate))
         \o <<EndEv("fixedrotation")>>
    ELSE <<StartEv("rotationpath", << <<"interpolation", r.interpolation>> >>)>>
         \o Flatten([i \in DOMAIN r.waypoints |-> WriteRotationWaypoint(r.waypoints[i])])
         \o <<EndEv("rotationpath")>>

WriteReceiver(r, map) ==
    <<StartEv("receiver",
        << <<"name", r.name>> >>
        \o OptAttr("antenna", get_name(map, r.antennaId))
        \o OptAttr("timing", get_name(map, r.timingId)))>>
    \o write_simple_tag("window_skip", NumToString(r.window_skip))
    \o write_simple_tag("window_length", NumToString(r.window_length))
    \o write_simple_tag("prf", NumToString(r.prf))
    \o write_optional_tag("noise_temp", r.noiseTemperature)
    \o <<EndEv("receiver")>>

WriteTransmitter(t, map) ==
    <<StartEv("transmitter",
        << <<"name", t.name>>, <<"type", "continuous">> >>
        \o OptAttr("antenna", get_name(map, t.antennaId))
        \o OptAttr("pulse", get_name(map, t.pulseId))
        \o OptAttr("timing", get_name(map, t.timingId)))>>
    \o write_simple_tag("prf", NumToString(t.prf))
    \o <<EndEv("transmitter")>>

\* A writer that emits the model element for every fluctuation model.
WriteTargetAlwaysModel(t) ==
    <<StartEv("target", << <<"name", t.name>> >>)>>
    \o <<StartEv("rcs", << <<"type", t.rcs_type>> >> \o OptAttr("filename", t.rcs_filename))>>
    \o write_optional_tag("value", t.rcs_value)
    \o <<EndEv("rcs")>>
    \o <<StartEv("model", << <<"type", t.rcs_model>> >>)>>
    \o write_optional_tag("k", t.rcs_k)
    \o <<EndEv("model")>>
    \o <<EndEv("target")>>

WriteTarget(t) ==
    <<StartEv("target", << <<"name", t.name>> >>)>>
    \o <<StartEv("rcs", << <<"type", t.rcs_type>> >> \o OptAttr("filename", t.rcs_filename))>>
    \o write_optional_tag("value", t.rcs_value)
    \o <<EndEv("rcs")>>
    \o (IF t.rcs_model # "constant"
        THEN <<StartEv("model", << <<"type", t.rcs_model>> >>)>>
             \o write_optional_tag("k", t.rcs_k)
             \o <<EndEv("model")>>
        ELSE <<>>)
    \o <<EndEv("target")>>

\* match &platform.component { Receiver, Transmitter, Target, _ => {} }
WriteComponent(c, map) ==
    CASE c.type = "receiver" -> WriteReceiver(c, map)
      [] c.type = "transmitter" -> WriteTransmitter(c, map)
      [] c.type = "target" -> WriteTarget(c)
      [] OTHER -> <<>>

\* A writer that emits the rotation ahead of the motion path.
WritePlatformRotationFirst(platform, map) ==
    <<StartEv("platform", << <<"name", platform.name>> >>)>>
    \o WriteRotation(platform.rotation)
    \o WriteMotionPath(platform.motionPath)
    \o WriteComponent(platform.component, map)
    \o <<EndEv("platform")>>

WritePlatform(platform, map) ==
    <<StartEv("platform", << <<"name", platform.name>> >>)>>
    \o WriteMotionPath(platform.motionPath)
    \o WriteRotation(platform.rotation)
    \o WriteComponent(platform.component, map)
    \o <<EndEv("platform")>>

\* Every write_event of one call of generate_xml_from_state, in program order.
GenerateEvents(s) ==
    <<DeclEv, DocTypeEv,
      StartEv("simulation", << <<"name", s.globalParameters.simulation_name>> >>)>>
    \o WriteParameters(s.globalParameters)
    \o Flatten([i \in DOMAIN s.pulses |-> WritePulse(s.pulses[i])])
    \o Flatten([i \in DOMAIN s.timings |-> WriteTiming(s.timings[i])])
    \o Flatten([i \in DOMAIN s.antennas |-> WriteAntenna(s.antennas[i])])
    \o Flatten([i \in DOMAIN s.platforms |-> WritePlatform(s.platforms[i], id_to_name(s))])
    \o <<EndEv("simulation")>>

---------------------------------------------------------------------------
(* XML PARSING (DESERIALIZATION) LOGIC                                     *)
(* quick_xml::de::from_str: the reader turns the events into elements,     *)
(* serde maps the elements onto the Xml* structs.                          *)

\* The number of elements open after the first k events.
OpenAfter(doc, k) ==
    Cardinality({i \in 1 .. k : doc[i].type = "Start"})
    - Cardinality({i \in 1 .. k : doc[i].type = "End"})

\* For every event, the number of elements open when it is read.
Depths(doc) == [k \in 1 .. Len(doc) |-> OpenAfter(doc, k - 1)] \o <<>>

\* For every event, the index of the start tag of the innermost element
\* open when it is read (0: none).
Parents(doc, depth) ==
    [k \in 1 .. Len(doc) |->
        LET open == {i \in 1 .. (k - 1) :
                        doc[i].type = "Start" /\ depth[i] = depth[k] - 1}
        IN IF open = {} THEN 0 ELSE CHOOSE i \in open : \A j \in open : j <= i]
    \o <<>>

\* The members of a set of indices in increasing order.
Ascending(S) ==
    [n \in 1 .. Cardinality(S) |->
        CHOOSE k \in S : Cardinality({j \in S : j < k}) = n - 1]

RECURSIVE ConcatText(_, _)
ConcatText(doc, ks) ==
    IF ks = <<>> THEN "" ELSE doc[Head(ks)].text \o ConcatText(doc, Tail(ks))

\* An element of a well-formed document: the document, the place of every
\* event in it, the indices of the element's start (or empty) tag and of
\* its end tag, and the element's own text content.
ElementAt(doc, parent, i) ==
    LET last == IF doc[i].type = "Empty" THEN i
                ELSE CHOOSE j \in (i + 1) .. Len(doc) :
                        doc[j].type = "End" /\ parent[j] = i
    IN [doc |-> doc, parent |-> parent, i |-> i, last |-> last,
        text |-> ConcatText(doc,
                    Ascending({k \in (i + 1) .. last :
                                  doc[k].type = "Text" /\ parent[k] = i}))]

\* The reader over the whole document.  An end tag that is stray or does
\* not match the innermost open element, an element still open at the end
\* of input, or no document element at all is a syntax error.
ReadTree(doc) ==
    LET depth == Depths(doc)
        parent == Parents(doc, depth)
        roots == {k \in 1 .. Len(doc) :
                     doc[k].type \in {"Start", "Empty"} /\ depth[k] = 0}
        wellFormed ==
            /\ \A k \in 1 .. Len(doc) :
                  doc[k].type = "End" =>
                      /\ depth[k] > 0 /\ parent[k] > 0
                      /\ doc[parent[k]].name = doc[k].name
            /\ OpenAfter(doc, Len(doc)) = 0
            /\ roots # {}
    IN IF wellFormed
       THEN [ok |-> TRUE,
             root |-> Some(ElementAt(doc, parent,
                                     CHOOSE k \in roots : \A j \in roots : k <= j))]
       ELSE [ok |-> FALSE, root |-> None]

\* #[serde(rename = "@key")]: the attribute's value, None when absent.
EvAttr(ev, key) ==
    LET attrs == ev.attrs
        idx == {i \in DOMAIN attrs : attrs[i][1] = key}
    IN IF idx = {} THEN None
       ELSE Some(attrs[CHOOSE i \in idx : \A j \in idx : i <= j][2])
Attr(el, key) == EvAttr(el.doc[el.i], key)

\* The child elements named `tag`, in document order.
Child(el, tag) ==
    LET ks == Ascending({k \in (el.i + 1) .. el.last :
                            /\ el.parent[k] = el.i
                            /\ el.doc[k].type \in {"Start", "Empty"}
                            /\ el.doc[k].name = tag})
    IN [n \in DOMAIN ks |-> ElementAt(el.doc, el.parent, ks[n])]

\* A required f64 / i64 field: one element whose text is a number.
NumFieldOk(el, tag) ==
    LET c == Child(el, tag) IN Len(c) = 1 /\ IsSome(ParseNum(c[1].text))
NumField(el, tag) == Unwrap(ParseNum(Child(el, tag)[1].text))

\* An Option<f64> field: absent, or one element whose text is a number.
OptNumFieldOk(el, tag) ==
    LET c == Child(el, tag)
    IN Len(c) = 0 \/ (Len(c) = 1 /\ IsSome(ParseNum(c[1].text)))
OptNumField(el, tag) ==
    LET c == Child(el, tag) IN IF Len(c) = 0 THEN None ELSE ParseNum(c[1].text)

\* A required struct field: exactly one element.
One(el, tag) == Len(Child(el, tag)) = 1
\* An Option<struct> field: at most one element.
AtMostOne(el, tag) == Len(Child(el, tag)) <= 1

XmlExportOk(el) ==
    /\ IsSome(Attr(el, "binary")) /\ IsSome(ParseBool(Unwrap(Attr(el, "binary"))))
    /\ IsSome(Attr(el, "csv")) /\ IsSome(ParseBool(Unwrap(Attr(el, "csv"))))
    /\ IsSome(Attr(el, "xml")) /\ IsSome(ParseBool(Unwrap(Attr(el, "xml"))))
XmlExport(el) ==
    [binary |-> Unwrap(ParseBool(Unwrap(Attr(el, "binary")))),
     csv |-> Unwrap(ParseBool(Unwrap(Attr(el, "csv")))),
     xml |-> Unwrap(ParseBool(Unwrap(Attr(el, "xml"))))]

XmlParametersOk(el) ==
    /\ NumFieldOk(el, "starttime") /\ NumFieldOk(el, "endtime")
    /\ NumFieldOk(el, "rate") /\ NumFieldOk(el, "c")
    /\ OptNumFieldOk(el, "simSamplingRate")
    /\ \/ Len(Child(el, "randomseed")) = 0
       \/ /\ Len(Child(el, "randomseed")) = 1
          /\ IsSome(ParseU64(Child(el, "randomseed")[1].text))
    /\ NumFieldOk(el, "adc_bits") /\ NumFieldOk(el, "oversample")
    /\ One(el, "export") /\ XmlExportOk(Child(el, "export")[1])
XmlParameters(el) ==
    [starttime |-> NumField(el, "starttime"),
     endtime |-> NumField(el, "endtime"),
     rate |-> NumField(el, "rate"),
     c |-> NumField(el, "c"),
     simSamplingRate |-> OptNumField(el, "simSamplingRate"),
     randomseed |-> IF Len(Child(el, "randomseed")) = 0 THEN None
                    ELSE ParseU64(Child(el, "randomseed")[1].text),
     adc_bits |-> NumField(el, "adc_bits"),
     oversample |-> NumField(el, "oversample"),
     export |-> XmlExport(Child(el, "export")[1])]

XmlPulseOk(el) ==
    /\ IsSome(Attr(el, "name")) /\ IsSome(Attr(el, "type"))
    /\ NumFieldOk(el, "power") /\ NumFieldOk(el, "carrier")
XmlPulse(el) ==
    [name |-> Unwrap(Attr(el, "name")),
     ptype |-> Unwrap(Attr(el, "type")),
     filename |-> Attr(el, "filename"),
     power |-> NumField(el, "power"),
     carrier |-> NumField(el, "carrier")]

XmlNoiseEntryOk(el) == NumFieldOk(el, "alpha") /\ NumFieldOk(el, "weight")
XmlNoiseEntry(el) ==
    [alpha |-> NumField(el, "alpha"), weight |-> NumField(el, "weight")]

XmlTimingOk(el) ==
    /\ IsSome(Attr(el, "name"))
    /\ NumFieldOk(el, "frequency")
    /\ OptNumFieldOk(el, "freq_offset")
    /\ OptNumFieldOk(el, "random_freq_offset_stdev")
    /\ OptNumFieldOk(el, "phase_offset")
    /\ OptNumFieldOk(el, "random_phase_offset_stdev")
    /\ \A i \in DOMAIN Child(el, "noise_entry") :
           XmlNoiseEntryOk(Child(el, "noise_entry")[i])
XmlTiming(el) ==
    [name |-> Unwrap(Attr(el, "name")),
     frequency |-> NumField(el, "frequency"),
     freq_offset |-> OptNumField(el, "freq_offset"),
     random_freq_offset_stdev |-> OptNumField(el, "random_freq_offset_stdev"),
     phase_offset |-> OptNumField(el, "phase_offset"),
     random_phase_offset_stdev |-> OptNumField(el, "random_phase_offset_stdev"),
     noise_entries |-> [i \in DOMAIN Child(el, "noise_entry") |->
                           XmlNoiseEntry(Child(el, "noise_entry")[i])]]

XmlAntennaOk(el) ==
    /\ IsSome(Attr(el, "name")) /\ IsSome(Attr(el, "pattern"))
    /\ OptNumFieldOk(el, "efficiency")
    /\ OptNumFieldOk(el, "alpha") /\ OptNumFieldOk(el, "beta")
    /\ OptNumFieldOk(el, "gamma")
    /\ OptNumFieldOk(el, "azscale") /\ OptNumFieldOk(el, "elscale")
    /\ OptNumFieldOk(el, "diameter")
XmlAntenna(el) ==
    [name |-> Unwrap(Attr(el, "name")),
     pattern |-> Unwrap(Attr(el, "pattern")),
     filename |-> Attr(el, "filename"),
     efficiency |-> OptNumField(el, "efficiency"),
     alpha |-> OptNumField(el, "alpha"),
     beta |-> OptNumField(el, "beta"),
     gamma |-> OptNumField(el, "gamma"),
     azscale |-> OptNumField(el, "azscale"),
     elscale |-> OptNumField(el, "elscale"),
     diameter |-> OptNumField(el, "diameter")]

XmlPositionWaypointOk(el) ==
    /\ NumFieldOk(el, "x") /\ NumFieldOk(el, "y")
    /\ NumFieldOk(el, "altitude") /\ NumFieldOk(el, "time")
XmlPositionWaypoint(el) ==
    [x |-> NumField(el, "x"), y |-> NumField(el, "y"),
     altitude |-> NumField(el, "altitude"), time |-> NumField(el, "time")]

XmlMotionPathOk(el) ==
    /\ IsSome(Attr(el, "interpolation"))
    /\ \A i \in DOMAIN Child(el, "positionwaypoint") :
           XmlPositionWaypointOk(Child(el, "positionwaypoint")[i])
XmlMotionPath(el) ==
    [interpolation |-> Unwrap(Attr(el, "interpolation")),
     waypoints |-> [i \in DOMAIN Child(el, "positionwaypoint") |->
                       XmlPositionWaypoint(Child(el, "positionwaypoint")[i])]]

XmlFixedRotationOk(el) ==
    /\ NumFieldOk(el, "startazimuth") /\ NumFieldOk(el, "startelevation")
    /\ NumFieldOk(el, "azimuthrate") /\ NumFieldOk(el, "elevationrate")
XmlFixedRotation(el) ==
    [startazimuth |-> NumField(el, "startazimuth"),
     startelevation |-> NumField(el, "startelevation"),
     azimuthrate |-> NumField(el, "azimuthrate"),
     elevationrate |-> NumField(el, "elevationrate")]

XmlTransmitterOk(el) ==
    /\ IsSome(Attr(el, "name")) /\ IsSome(Attr(el, "antenna"))
    /\ IsSome(Attr(el, "pulse")) /\ IsSome(Attr(el, "timing"))
    /\ NumFieldOk(el, "prf")
XmlTransmitter(el) ==
    [name |-> Unwrap(Attr(el, "name")),
     antenna |-> Unwrap(Attr(el, "antenna")),
     pulse |-> Unwrap(Attr(el, "pulse")),
     timing |-> Unwrap(Attr(el, "timing")),
     prf |-> NumField(el, "prf")]

XmlReceiverOk(el) ==
    /\ IsSome(Attr(el, "name")) /\ IsSome(Attr(el, "antenna"))
    /\ IsSome(Attr(el, "timing"))
    /\ NumFieldOk(el, "window_skip") /\ NumFieldOk(el, "window_length")
    /\ NumFieldOk(el, "prf") /\ OptNumFieldOk(el, "noise_temp")
XmlReceiver(el) ==
    [name |-> Unwrap(Attr(el, "name")),
     antenna |-> Unwrap(Attr(el, "antenna")),
     timing |-> Unwrap(Attr(el, "timing")),
     window_skip |-> NumField(el, "window_skip"),
     window_length |-> NumField(el, "window_length"),
     prf |-> NumField(el, "prf"),
     noise_temp |-> OptNumField(el, "noise_temp")]

XmlRcsOk(el) == IsSome(Attr(el, "type")) /\ OptNumFieldOk(el, "value")
XmlRcs(el) ==
    [rtype |-> Unwrap(Attr(el, "type")),
     filename |-> Attr(el, "filename"),
     value |-> OptNumField(el, "value")]

XmlModelOk(el) == IsSome(Attr(el, "type")) /\ OptNumFieldOk(el, "k")
XmlModel(el) == [mtype |-> Unwrap(Attr(el, "type")), k |-> OptNumField(el, "k")]

XmlTargetOk(el) ==
    /\ IsSome(Attr(el, "name"))
    /\ One(el, "rcs") /\ XmlRcsOk(Child(el, "rcs")[1])
    /\ AtMostOne(el, "model")
    /\ \A i \in DOMAIN Child(el, "model") : XmlModelOk(Child(el, "model")[i])
XmlTarget(el) ==
    [name |-> Unwrap(Attr(el, "name")),
     rcs |-> XmlRcs(Child(el, "rcs")[1]),
     model |-> [i \in DOMAIN Child(el, "model") |-> XmlModel(Child(el, "model")[i])]]

\* XmlPlatform has no field for <rotationpath>: serde skips the element.
XmlPlatformOk(el) ==
    /\ IsSome(Attr(el, "name"))
    /\ One(el, "motionpath") /\ XmlMotionPathOk(Child(el, "motionpath")[1])
    /\ AtMostOne(el, "fixedrotation")
    /\ \A i \in DOMAIN Child(el, "fixedrotation") :
           XmlFixedRotationOk(Child(el, "fixedrotation")[i])
    /\ AtMostOne(el, "transmitter")
    /\ \A i \in DOMAIN Child(el, "transmitter") :
           XmlTransmitterOk(Child(el, "transmitter")[i])
    /\ AtMostOne(el, "receiver")
    /\ \A i \in DOMAIN Child(el, "receiver") :
           XmlReceiverOk(Child(el, "receiver")[i])
    /\ AtMostOne(el, "target")
    /\ \A i \in DOMAIN Child(el, "target") : XmlTargetOk(Child(el, "target")[i])
XmlPlatform(el) ==
    [name |-> Unwrap(Attr(el, "name")),
     motionpath |-> XmlMotionPath(Child(el, "motionpath")[1]),
     fixedrotation |-> [i \in DOMAIN Child(el, "fixedrotation") |->
                           XmlFixedRotation(Child(el, "fixedrotation")[i])],
     transmitter |-> [i \in DOMAIN Child(el, "transmitter") |->
                         XmlTransmitter(Child(el, "transmitter")[i])],
     receiver |-> [i \in DOMAIN Child(el, "receiver") |->
                      XmlReceiver(Child(el, "receiver")[i])],
     target |-> [i \in DOMAIN Child(el, "target") |->
                    XmlTarget(Child(el, "target")[i])]]

XmlSimulationOk(el) ==
    /\ IsSome(Attr(el, "name"))
    /\ One(el, "parameters") /\ XmlParametersOk(Child(el, "parameters")[1])
    /\ \A i \in DOMAIN Child(el, "pulse") : XmlPulseOk(Child(el, "pulse")[i])
    /\ \A i \in DOMAIN Child(el, "timing") : XmlTimingOk(Child(el, "timing")[i])
    /\ \A i \in DOMAIN Child(el, "antenna") : XmlAntennaOk(Child(el, "antenna")[i])
    /\ \A i \in DOMAIN Child(el, "platform") : XmlPlatformOk(Child(el, "platform")[i])
XmlSimulation(el) ==
    [name |-> Unwrap(Attr(el, "name")),
     parameters |-> XmlParameters(Child(el, "parameters")[1]),
     pulses |-> [i \in DOMAIN Child(el, "pulse") |-> XmlPulse(Child(el, "pulse")[i])],
     timings |-> [i \in DOMAIN Child(el, "timing") |-> XmlTiming(Child(el, "timing")[i])],
     antennas |-> [i \in DOMAIN Child(el, "antenna") |->
                      XmlAntenna(Child(el, "antenna")[i])],
     platforms |-> [i \in DOMAIN Child(el, "platform") |->
                       XmlPlatform(Child(el, "platform")[i])]]

\* from_str::<XmlSimulation>(&xml_content).map_err(map_err)
from_str(doc) ==
    LET tree == ReadTree(doc)
    IN IF ~tree.ok THEN Err("syntax error: ill-formed document")
       ELSE IF ~XmlSimulationOk(Unwrap(tree.root))
            THEN Err("missing field or invalid value")
            ELSE Ok(XmlSimulation(Unwrap(tree.root)))

---------------------------------------------------------------------------
(* Transformer: the Xml* structs into the UI's ScenarioState               *)

\* An identifier drawn once per call and handed to every entity.
NewV4Once(seed, n) == "uuid-" \o ToString(seed)

\* Uuid::new_v4().to_string(): a fresh random identifier.  `seed` stands for
\* the entropy of one call of the transformer and `n` for the ordinal of the
\* new_v4() call within it; two draws never yield the same identifier.
NewV4(seed, n) == "uuid-" \o ToString(seed) \o "-" \o ToString(n)

RECURSIVE Sum(_)
Sum(s) == IF s = <<>> THEN 0 ELSE Head(s) + Sum(Tail(s))

\* Ordinals of the new_v4() calls, in the order the closures run: the pulses,
\* each timing followed by its noise entries, the antennas, each platform
\* followed by its position waypoints.
NoiseBefore(xml, j) ==
    Sum([k \in 1 .. (j - 1) |-> Len(xml.timings[k].noise_entries)])
TimingOrd(xml, j) == Len(xml.pulses) + j + NoiseBefore(xml, j)
AntennaOrd(xml, a) ==
    Len(xml.pulses) + Len(xml.timings) + NoiseBefore(xml, Len(xml.timings) + 1) + a
WaypointsBefore(xml, p) ==
    Sum([k \in 1 .. (p - 1) |-> Len(xml.platforms[k].motionpath.waypoints)])
PlatformOrd(xml, p) ==
    AntennaOrd(xml, Len(xml.antennas)) + p + WaypointsBefore(xml, p)

\* name_to_id after the three asset loops: inserts in the order pulses,
\* timings, antennas, each in document order.
\* A faulty reference table: the identifiers it records are not the ones the
\* assets are given.
name_to_id_stale(xml, seed) ==
    CollectMap(<<>>,
        [i \in DOMAIN xml.pulses |-> <<xml.pulses[i].name, NewV4(seed + 10, i)>>]
        \o [j \in DOMAIN xml.timings |->
               <<xml.timings[j].name, NewV4(seed + 10, TimingOrd(xml, j))>>]
        \o [a \in DOMAIN xml.antennas |->
               <<xml.antennas[a].name, NewV4(seed + 10, AntennaOrd(xml, a))>>])

\* A table filled in the order antennas, timings, pulses.
name_to_id_antennas_first(xml, seed) ==
    CollectMap(<<>>,
        [a \in DOMAIN xml.antennas |->
               <<xml.antennas[a].name, NewV4(seed, AntennaOrd(xml, a))>>]
        \o [j \in DOMAIN xml.timings |->
               <<xml.timings[j].name, NewV4(seed, TimingOrd(xml, j))>>]
        \o [i \in DOMAIN xml.pulses |-> <<xml.pulses[i].name, NewV4(seed, i)>>])

name_to_id(xml, seed) ==
    CollectMap(<<>>,
        [i \in DOMAIN xml.pulses |-> <<xml.pulses[i].name, NewV4(seed, i)>>]
        \o [j \in DOMAIN xml.timings |->
               <<xml.timings[j].name, NewV4(seed, TimingOrd(xml, j))>>]
        \o [a \in DOMAIN xml.antennas |->
               <<xml.antennas[a].name, NewV4(seed, AntennaOrd(xml, a))>>])

TransformPulse(p, id) ==
    [id |-> id, type |-> "Pulse", name |-> p.name,
     pulseType |-> IF p.ptype = "continuous" THEN "cw" ELSE p.ptype,
     power |-> p.power, carrier |-> p.carrier, filename |-> p.filename]

TransformTiming(t, seed, ord) ==
    [id |-> NewV4(seed, ord), type |-> "Timing", name |-> t.name,
     frequency |-> t.frequency,
     freqOffset |-> t.freq_offset,
     randomFreqOffsetStdev |-> t.random_freq_offset_stdev,
     phaseOffset |-> t.phase_offset,
     randomPhaseOffsetStdev |-> t.random_phase_offset_stdev,
     noiseEntries |-> [n \in DOMAIN t.noise_entries |->
                          [id |-> NewV4(seed, ord + n),
                           alpha |-> t.noise_entries[n].alpha,
                           weight |-> t.noise_entries[n].weight]]]

TransformAntenna(a, id) ==
    [id |-> id, type |-> "Antenna", name |-> a.name, pattern |-> a.pattern,
     filename |-> a.filename, efficiency |-> a.efficiency,
     alpha |-> a.alpha, beta |-> a.beta, gamma |-> a.gamma,
     azscale |-> a.azscale, elscale |-> a.elscale, diameter |-> a.diameter]

\* A transformer whose chain stops after the transmitter.
TransformComponentTransmitterOnly(p, map) ==
    IF IsSome(p.transmitter)
    THEN LET t == Unwrap(p.transmitter)
         IN [type |-> "transmitter", name |-> t.name, radarType |-> "pulsed",
             prf |-> t.prf,
             antennaId |-> HashMapGet(map, t.antenna),
             pulseId |-> HashMapGet(map, t.pulse),
             timingId |-> HashMapGet(map, t.timing)]
    ELSE [type |-> "none"]

\* A transformer that looks for the receiver before the transmitter.
TransformComponentReceiverFirst(p, map) ==
    IF IsSome(p.receiver)
    THEN LET r == Unwrap(p.receiver)
         IN [type |-> "receiver", name |-> r.name,
             window_skip |-> r.window_skip, window_length |-> r.window_length,
             prf |-> r.prf,
             antennaId |-> HashMapGet(map, r.antenna),
             timingId |-> HashMapGet(map, r.timing),
             noiseTemperature |-> r.noise_temp,
             noDirectPaths |-> FALSE, noPropagationLoss |-> FALSE]
    ELSE IF IsSome(p.transmitter)
    THEN LET t == Unwrap(p.transmitter)
         IN [type |-> "transmitter", name |-> t.name, radarType |-> "pulsed",
             prf |-> t.prf,
             antennaId |-> HashMapGet(map, t.antenna),
             pulseId |-> HashMapGet(map, t.pulse),
             timingId |-> HashMapGet(map, t.timing)]
    ELSE IF IsSome(p.target)
    THEN LET t == Unwrap(p.target)
         IN [type |-> "target", name |-> t.name,
             rcs_type |-> t.rcs.rtype, rcs_value |-> t.rcs.value,
             rcs_filename |-> t.rcs.filename,
             rcs_model |-> IF IsSome(t.model) THEN Unwrap(t.model).mtype ELSE "constant",
             rcs_k |-> IF IsSome(t.model) THEN Unwrap(t.model).k ELSE None]
    ELSE [type |-> "none"]

\* if let Some(t) = p.transmitter .. else if let Some(r) = p.receiver ..
\* else if let Some(t) = p.target .. else PlatformComponent::None
TransformComponent(p, map) ==
    IF IsSome(p.transmitter)
    THEN LET t == Unwrap(p.transmitter)
         IN [type |-> "transmitter", name |-> t.name, radarType |-> "pulsed",
             prf |-> t.prf,
             antennaId |-> HashMapGet(map, t.antenna),
             pulseId |-> HashMapGet(map, t.pulse),
             timingId |-> HashMapGet(map, t.timing)]
    ELSE IF IsSome(p.receiver)
    THEN LET r == Unwrap(p.receiver)
         IN [type |-> "receiver", name |-> r.name,
             window_skip |-> r.window_skip, window_length |-> r.window_length,
             prf |-> r.prf,
             antennaId |-> HashMapGet(map, r.antenna),
             timingId |-> HashMapGet(map, r.timing),
             noiseTemperature |-> r.noise_temp,
             noDirectPaths |-> FALSE, noPropagationLoss |-> FALSE]
    ELSE IF IsSome(p.target)
    THEN LET t == Unwrap(p.target)
         IN [type |-> "target", name |-> t.name,
             rcs_type |-> t.rcs.rtype, rcs_value |-> t.rcs.value,
             rcs_filename |-> t.rcs.filename,
             rcs_model |-> IF IsSome(t.model) THEN Unwrap(t.model).mtype ELSE "constant",
             rcs_k |-> IF IsSome(t.model) THEN Unwrap(t.model).k ELSE None]
    ELSE [type |-> "none"]

\* A transformer that takes the azimuth from the elevation field.
TransformRotationMixed(p) ==
    IF IsSome(p.fixedrotation)
    THEN LET r == Unwrap(p.fixedrotation)
         IN [type |-> "fixed",
             startAzimuth |-> r.startelevation, startElevation |-> r.startelevation,
             azimuthRate |-> r.azimuthrate, elevationRate |-> r.elevationrate]
    ELSE [type |-> "fixed", startAzimuth |-> 0, startElevation |-> 0,
          azimuthRate |-> 0, elevationRate |-> 0]

\* p.fixedrotation.map_or_else(|| zeroed Fixed, |r| Fixed from r)
TransformRotation(p) ==
    IF IsSome(p.fixedrotation)
    THEN LET r == Unwrap(p.fixedrotation)
         IN [type |-> "fixed",
             startAzimuth |-> r.startazimuth, startElevation |-> r.startelevation,
             azimuthRate |-> r.azimuthrate, elevationRate |-> r.elevationrate]
    ELSE [type |-> "fixed", startAzimuth |-> 0, startElevation |-> 0,
          azimuthRate |-> 0, elevationRate |-> 0]

TransformPlatform(p, map, seed, ord) ==
    [id |-> NewV4(seed, ord), type |-> "Platform", name |-> p.name,
     motionPath |->
        [interpolation |-> p.motionpath.interpolation,
         waypoints |-> [w \in DOMAIN p.motionpath.waypoints |->
                           [id |-> NewV4(seed, ord + w),
                            x |-> p.motionpath.waypoints[w].x,
                            y |-> p.motionpath.waypoints[w].y,
                            altitude |-> p.motionpath.waypoints[w].altitude,
                            time |-> p.motionpath.waypoints[w].time]]],
     rotation |-> TransformRotation(p),
     component |-> TransformComponent(p, map)]

TransformGlobalParameters(xml) ==
    [id |-> "global-parameters", type |-> "GlobalParameters",
     simulation_name |-> xml.name,
     start |-> xml.parameters.starttime,
     end |-> xml.parameters.endtime,
     rate |-> xml.parameters.rate,
     simSamplingRate |-> xml.parameters.simSamplingRate,
     c |-> xml.parameters.c,
     random_seed |-> xml.parameters.randomseed,
     adc_bits |-> xml.parameters.adc_bits,
     oversample_ratio |-> xml.parameters.oversample,
     export |-> [xml |-> xml.parameters.export.xml,
                 csv |-> xml.parameters.export.csv,
                 binary |-> xml.parameters.export.binary]]

transform_xml_to_state(xml, seed) ==
    [globalParameters |-> TransformGlobalParameters(xml),
     pulses |-> [i \in DOMAIN xml.pulses |-> TransformPulse(xml.pulses[i], NewV4(seed, i))],
     timings |-> [j \in DOMAIN xml.timings |->
                     TransformTiming(xml.timings[j], seed, TimingOrd(xml, j))],
     antennas |-> [a \in DOMAIN xml.antennas |->
                      TransformAntenna(xml.antennas[a], NewV4(seed, AntennaOrd(xml, a)))],
     platforms |-> [p \in DOMAIN xml.platforms |->
                       TransformPlatform(xml.platforms[p], name_to_id(xml, seed),
                                         seed, PlatformOrd(xml, p))]]

\* A faulty parse_xml_to_state: a failed read still hands back a model, built
\* as far as the platform list.
parse_xml_to_state_partial(doc, seed) ==
    LET parsed_xml == from_str(doc)
    IN IF ~parsed_xml.ok
       THEN [ok |-> FALSE, value |-> Some([platforms |-> <<>>]), err |-> parsed_xml.err]
       ELSE Ok(transform_xml_to_state(Unwrap(parsed_xml.value), seed))

\* The value of parse_xml_to_state.  serde_json::to_string(&state) writes the
\* state as the JSON object with serde's field names and tags, which is the
\* record the transformer built; it does not fail on these structs.
parse_xml_to_state(doc, seed) ==
    LET parsed_xml == from_str(doc)
    IN IF ~parsed_xml.ok THEN Err(parsed_xml.err)
       ELSE Ok(transform_xml_to_state(Unwrap(parsed_xml.value), seed))

---------------------------------------------------------------------------
(* Inputs: the ScenarioState values and the documents handed to the two    *)
(* entry points.                                                           *)

MaxAssets == 2      \* longest pulse list drawn
MaxNoise == 2       \* most noise entries of a timing
MaxWaypoints == 2   \* most waypoints of a motion or rotation path

OptNum(v) == {None, Some(v)}

GlobalParametersOf(ssr, seed, ex) ==
    [id |-> "global-parameters", type |-> "GlobalParameters",
     simulation_name |-> "sim", start |-> 0, end |-> 10, rate |-> 8,
     simSamplingRate |-> ssr, c |-> 3, random_seed |-> seed,
     adc_bits |-> 12, oversample_ratio |-> 1, export |-> ex]

DefaultParameters ==
    GlobalParametersOf(None, None, [xml |-> FALSE, csv |-> FALSE, binary |-> TRUE])

ScenarioOf(gp, pulses, timings, antennas, platforms) ==
    [globalParameters |-> gp, pulses |-> pulses, timings |-> timings,
     antennas |-> antennas, platforms |-> platforms]

PulseOf(id, name, ptype, filename) ==
    [id |-> id, type |-> "Pulse", name |-> name, pulseType |-> ptype,
     power |-> 10, carrier |-> 9, filename |-> filename]

NoiseEntriesOf(n) ==
    [i \in 1 .. n |-> [id |-> "n" \o ToString(i), alpha |-> i, weight |-> i + 2]]

TimingOf(id, name, fo, rfo, po, rpo, n) ==
    [id |-> id, type |-> "Timing", name |-> name, frequency |-> 5,
     freqOffset |-> fo, randomFreqOffsetStdev |-> rfo,
     phaseOffset |-> po, randomPhaseOffsetStdev |-> rpo,
     noiseEntries |-> NoiseEntriesOf(n)]

\* `withParams`: the six pattern parameters all hold a value, or none does.
AntennaOf(id, name, pattern, filename, efficiency, withParams) ==
    [id |-> id, type |-> "Antenna", name |-> name, pattern |-> pattern,
     filename |-> filename, efficiency |-> efficiency,
     alpha |-> IF withParams THEN Some(1) ELSE None,
     beta |-> IF withParams THEN Some(2) ELSE None,
     gamma |-> IF withParams THEN Some(3) ELSE None,
     azscale |-> IF withParams THEN Some(4) ELSE None,
     elscale |-> IF withParams THEN Some(5) ELSE None,
     diameter |-> IF withParams THEN Some(6) ELSE None]

PositionWaypointsOf(n) ==
    [i \in 1 .. n |-> [id |-> "w" \o ToString(i), x |-> i, y |-> i + 1,
                       altitude |-> i + 2, time |-> i - 1]]

RotationWaypointsOf(n) ==
    [i \in 1 .. n |-> [id |-> "r" \o ToString(i), azimuth |-> i + 3,
                       elevation |-> i + 4, time |-> i - 1]]

FixedRotationOf(a, e, ar, er) ==
    [type |-> "fixed", startAzimuth |-> a, startElevation |-> e,
     azimuthRate |-> ar, elevationRate |-> er]

RotationPathOf(n) ==
    [type |-> "path", interpolation |-> "linear", waypoints |-> RotationWaypointsOf(n)]

NoneComponent == [type |-> "none"]

MonostaticOf(antennaId, pulseId, timingId) ==
    [type |-> "monostatic", name |-> "mono", radarType |-> "pulsed",
     window_skip |-> 0, window_length |-> 1, prf |-> 2,
     antennaId |-> antennaId, pulseId |-> pulseId, timingId |-> timingId,
     noiseTemperature |-> None, noDirectPaths |-> FALSE, noPropagationLoss |-> FALSE]

TransmitterOf(radarType, antennaId, pulseId, timingId) ==
    [type |-> "transmitter", name |-> "tx", radarType |-> radarType, prf |-> 2,
     antennaId |-> antennaId, pulseId |-> pulseId, timingId |-> timingId]

ReceiverOf(antennaId, timingId, noiseTemperature, flag) ==
    [type |-> "receiver", name |-> "rx", window_skip |-> 0, window_length |-> 1,
     prf |-> 2, antennaId |-> antennaId, timingId |-> timingId,
     noiseTemperature |-> noiseTemperature,
     noDirectPaths |-> flag, noPropagationLoss |-> flag]

TargetOf(value, filename, model, k) ==
    [type |-> "target", name |-> "tgt", rcs_type |-> "isotropic",
     rcs_value |-> value, rcs_filename |-> filename, rcs_model |-> model, rcs_k |-> k]

PlatformNamed(id, name, mwps, rotation, component) ==
    [id |-> id, type |-> "Platform", name |-> name,
     motionPath |-> [interpolation |-> "static", waypoints |-> PositionWaypointsOf(mwps)],
     rotation |-> rotation, component |-> component]

PlatformOf(mwps, rotation, component) ==
    PlatformNamed("plat-1", "platform", mwps, rotation, component)

\* One asset of each kind, with distinct identifiers and names.
BasePulses == <<PulseOf("p-1", "P1", "cw", None)>>
BaseTimings == <<TimingOf("t-1", "T1", None, None, None, None, 0)>>
BaseAntennas == <<AntennaOf("a-1", "A1", "isotropic", None, None, FALSE)>>

ParamInputs ==
    {ScenarioOf(GlobalParametersOf(ssr, seed, ex), <<>>, <<>>, <<>>, <<>>) :
        ssr \in OptNum(7), seed \in {None, Some(5), Some(-3)},
        ex \in [xml : BOOLEAN, csv : BOOLEAN, binary : BOOLEAN]}

PulseChoices == {"cw", "continuous", "file", "chirp"} \X {None, Some("wave.h5")}

\* Pulse lists of every length in which one pulse takes any of the choices
\* and the others are plain: each pulse is written and read on its own.
PulseLists ==
    {<<>>} \cup {[i \in 1 .. n |-> IF i = k THEN c ELSE <<"cw", None>>] :
                    n \in 1 .. MaxAssets, k \in 1 .. MaxAssets, c \in PulseChoices}

PulseInputs ==
    {ScenarioOf(DefaultParameters,
                [i \in DOMAIN ch |->
                    PulseOf("p-" \o ToString(i), "P" \o ToString(i), ch[i][1], ch[i][2])],
                <<>>, <<>>, <<>>) :
        ch \in PulseLists}

TimingInputs ==
    {ScenarioOf(DefaultParameters, <<>>,
                <<TimingOf("t-1", "T1", fo, rfo, po, rpo, n)>>, <<>>, <<>>) :
        fo \in OptNum(1), rfo \in OptNum(2), po \in OptNum(3), rpo \in OptNum(4),
        n \in 0 .. MaxNoise}

AntennaPatterns == {"isotropic", "sinc", "gaussian", "squarehorn", "parabolic", "file"}

AntennaInputs ==
    {ScenarioOf(DefaultParameters, <<>>, <<>>,
                <<AntennaOf("a-1", "A1", pat, fn, eff, wp)>>, <<>>) :
        pat \in AntennaPatterns, fn \in {None, Some("pattern.xml")},
        eff \in OptNum(1), wp \in BOOLEAN}

RotationChoices ==
    {FixedRotationOf(1, 2, 3, 4)} \cup {RotationPathOf(n) : n \in 0 .. MaxWaypoints}

\* Components whose references all resolve to the base assets.
ComponentChoices ==
    {NoneComponent, MonostaticOf(Some("a-1"), Some("p-1"), Some("t-1"))}
    \cup {TransmitterOf(rt, Some("a-1"), Some("p-1"), Some("t-1")) :
            rt \in {"pulsed", "continuous"}}
    \cup {ReceiverOf(Some("a-1"), Some("t-1"), nt, flag) :
            nt \in OptNum(7), flag \in BOOLEAN}
    \cup {TargetOf(v, fn, m, k) :
            v \in OptNum(4), fn \in {None, Some("rcs.xml")},
            m \in {"constant", "chisquare"}, k \in OptNum(2)}

\* The motion path, the rotation and the component of a platform are written
\* and read independently of one another: every path and rotation is drawn
\* with no component and with a monostatic radar, and every component on a
\* platform of one waypoint and a fixed rotation.
PathComponents == {NoneComponent, MonostaticOf(Some("a-1"), Some("p-1"), Some("t-1"))}

PlatformInputs ==
    {ScenarioOf(DefaultParameters, BasePulses, BaseTimings, BaseAntennas,
                <<PlatformOf(mwps, rot, comp)>>) :
        mwps \in 0 .. MaxWaypoints, rot \in RotationChoices, comp \in PathComponents}
    \cup {ScenarioOf(DefaultParameters, BasePulses, BaseTimings, BaseAntennas,
                     <<PlatformOf(1, FixedRotationOf(1, 2, 3, 4), comp)>>) :
            comp \in ComponentChoices}

\* References that resolve, resolve to an asset of another kind, dangle or
\* are unset, over assets whose identifiers and names may collide.
RefChoices == {None, Some("i1"), Some("i2"), Some("i4"), Some("i9")}

ReferenceInputs ==
    {ScenarioOf(DefaultParameters,
                <<PulseOf(pid, pname, "cw", None)>>,
                <<TimingOf("i1", "A", None, None, None, None, 0)>>,
                <<AntennaOf("i4", "D", "isotropic", None, None, FALSE)>>,
                <<PlatformOf(0, FixedRotationOf(0, 0, 0, 0), comp)>>) :
        pid \in {"i1", "i2"}, pname \in {"A", "B"},
        comp \in {TransmitterOf("pulsed", a, p, t) :
                     a \in RefChoices, p \in RefChoices, t \in RefChoices}
                 \cup {ReceiverOf(a, t, None, FALSE) : a \in RefChoices, t \in RefChoices}}

\* Two platforms: a transmitter and a receiver, each with one reference that
\* resolves, dangles or is unset.
PairOf(a, t) ==
    ScenarioOf(DefaultParameters, BasePulses, BaseTimings, BaseAntennas,
               <<PlatformNamed("plat-1", "first", 0, FixedRotationOf(1, 2, 3, 4),
                               TransmitterOf("pulsed", a, Some("p-1"), Some("t-1"))),
                 PlatformNamed("plat-2", "second", 1, FixedRotationOf(0, 0, 0, 0),
                               ReceiverOf(Some("a-1"), t, None, FALSE))>>)

PairInputs ==
    {PairOf(a, t) : a \in {Some("a-1"), Some("zz"), None}, t \in {Some("t-1"), None}}

\* Parameters as an editor may hand them over: the end before the start, no
\* sampling rate, no ADC bits.
UncheckedParameterInputs ==
    {ScenarioOf([DefaultParameters EXCEPT !.start = 10, !.end = 0, !.rate = 0,
                                          !.adc_bits = 0],
                <<>>, <<>>, <<>>, <<>>)}

\* Two pulses of one name, and a transmitter that refers to the first.
CollisionInputs ==
    {ScenarioOf(DefaultParameters,
                <<PulseOf("p-1", "P1", "cw", None),
                  PulseOf("p-2", "P1", "file", Some("wave.h5"))>>,
                BaseTimings, BaseAntennas,
                <<PlatformOf(0, FixedRotationOf(0, 0, 0, 0),
                             TransmitterOf("pulsed", Some("a-1"), Some("p-1"), Some("t-1")))>>)}

ScenarioInputs ==
    ParamInputs \cup PulseInputs \cup TimingInputs \cup AntennaInputs
    \cup PlatformInputs \cup ReferenceInputs \cup PairInputs
    \cup UncheckedParameterInputs \cup CollisionInputs

---------------------------------------------------------------------------
(* Documents that do not come from the serializer: a serialized scenario   *)
(* with one edit applied to its text.                                      *)

SetAttr(attrs, key, val) ==
    IF \E i \in DOMAIN attrs : attrs[i][1] = key
    THEN [i \in DOMAIN attrs |-> IF attrs[i][1] = key THEN <<key, val>> ELSE attrs[i]]
    ELSE Append(attrs, <<key, val>>)

IsTag(ev, el) == ev.type \in {"Start", "Empty"} /\ ev.name = el

\* The indices of the first element named `tag`: its start and its end tag.
FirstStart(doc, tag) ==
    CHOOSE i \in DOMAIN doc :
        /\ doc[i].type = "Start" /\ doc[i].name = tag
        /\ \A j \in 1 .. (i - 1) : ~(doc[j].type = "Start" /\ doc[j].name = tag)
FirstEnd(doc, tag) ==
    CHOOSE i \in DOMAIN doc :
        /\ i > FirstStart(doc, tag)
        /\ doc[i].type = "End" /\ doc[i].name = tag
        /\ \A j \in (FirstStart(doc, tag) + 1) .. (i - 1) :
               ~(doc[j].type = "End" /\ doc[j].name = tag)
HasElement(doc, tag) == \E i \in DOMAIN doc : doc[i].type = "Start" /\ doc[i].name = tag

ApplyEdit(doc, e) ==
    CASE e.op = "set-attr" ->
            [i \in DOMAIN doc |->
                IF IsTag(doc[i], e.el)
                THEN [doc[i] EXCEPT !.attrs = SetAttr(@, e.key, e.val)] ELSE doc[i]]
      [] e.op = "drop-attr" ->
            [i \in DOMAIN doc |->
                IF IsTag(doc[i], e.el)
                THEN [doc[i] EXCEPT !.attrs = SelectSeq(@, LAMBDA a : a[1] # e.key)]
                ELSE doc[i]]
      [] e.op = "drop-element" ->
            IF HasElement(doc, e.el)
            THEN SubSeq(doc, 1, FirstStart(doc, e.el) - 1)
                 \o SubSeq(doc, FirstEnd(doc, e.el) + 1, Len(doc))
            ELSE doc
      [] e.op = "set-text" ->
            [i \in DOMAIN doc |->
                IF i > 1 /\ doc[i].type = "Text" /\ IsTag(doc[i - 1], e.el)
                THEN [doc[i] EXCEPT !.text = e.val] ELSE doc[i]]
      [] e.op = "drop-end" ->      \* the last end tag is missing
            SubSeq(doc, 1, Len(doc) - 1)
      [] e.op = "rename-end" ->    \* an end tag that does not match its start tag
            [i \in DOMAIN doc |->
                IF doc[i].type = "End" /\ doc[i].name = e.el
                THEN [doc[i] EXCEPT !.name = e.val] ELSE doc[i]]
      [] OTHER -> doc              \* "keep"

Edit(op, el, key, val) == [op |-> op, el |-> el, key |-> key, val |-> val]

DocEdits ==
    {Edit("keep", "", "", ""),
     Edit("set-attr", "transmitter", "type", "pulsed"),
     Edit("set-attr", "transmitter", "antenna", "Z9"),
     Edit("set-attr", "transmitter", "pulse", "T1"),
     Edit("set-attr", "receiver", "timing", "Z9"),
     Edit("drop-attr", "platform", "name", ""),
     Edit("drop-attr", "export", "csv", ""),
     Edit("drop-element", "rate", "", ""),
     Edit("drop-element", "motionpath", "", ""),
     Edit("drop-element", "rcs", "", ""),
     Edit("drop-element", "fixedrotation", "", ""),
     Edit("drop-element", "simSamplingRate", "", ""),
     Edit("set-text", "rate", "", "fast"),
     Edit("set-text", "endtime", "", "-1"),
     Edit("set-text", "adc_bits", "", "true"),
     Edit("drop-end", "", "", ""),
     Edit("rename-end", "platform", "", "plat"),
     Edit("rename-end", "parameters", "", "simulation")}

DocScenarios ==
    {ScenarioOf(GlobalParametersOf(ssr, None, [xml |-> TRUE, csv |-> FALSE, binary |-> TRUE]),
                BasePulses, BaseTimings, BaseAntennas, <<PlatformOf(1, rot, comp)>>) :
        ssr \in OptNum(7),
        rot \in {FixedRotationOf(1, 2, 3, 4), RotationPathOf(1)},
        comp \in {NoneComponent,
                  TransmitterOf("pulsed", Some("a-1"), Some("p-1"), Some("t-1")),
                  ReceiverOf(Some("a-1"), Some("t-1"), Some(7), FALSE),
                  TargetOf(Some(4), None, "chisquare", Some(2)),
                  TargetOf(None, Some("rcs.xml"), "constant", None)}}
    \cup {PairOf(Some("a-1"), Some("t-1"))}

\* Documents whose platform element holds several component elements, the
\* target first and the transmitter last.
MultiComponentDocuments ==
    LET m == ScenarioOf(DefaultParameters, BasePulses, BaseTimings, BaseAntennas,
                        <<PlatformOf(0, FixedRotationOf(1, 2, 3, 4), NoneComponent)>>)
        base == GenerateEvents(m)
        map == id_to_name(m)
        target == WriteTarget(TargetOf(Some(4), None, "constant", None))
        receiver == WriteReceiver(ReceiverOf(Some("a-1"), Some("t-1"), None, FALSE), map)
        transmitter ==
            WriteTransmitter(TransmitterOf("pulsed", Some("a-1"), Some("p-1"), Some("t-1")),
                             map)
    IN {SubSeq(base, 1, Len(base) - 2) \o comps \o SubSeq(base, Len(base) - 1, Len(base)) :
           comps \in {target \o receiver, target \o transmitter,
                      receiver \o transmitter, target \o receiver \o transmitter}}

DocumentInputs ==
    {ApplyEdit(GenerateEvents(m), e) : m \in DocScenarios, e \in DocEdits}
    \cup MultiComponentDocuments

\* The entropy a call of the transformer may draw its identifiers from.
UuidSeeds == {1, 2}

---------------------------------------------------------------------------
(* The calls.  A caller either serializes a scenario and parses the        *)
(* document it got, or parses a document and serializes the scenario it    *)
(* got.                                                                    *)

\* The command invocations the frontend makes, each served by its own thread.
MaxInvocations == 2
Threads == 1..MaxInvocations

\* An invocation the frontend has not made yet.
NotInvoked ==
    [cmd |-> "", arg |-> "", at |-> "idle", returned |-> None, result |-> None]

\* Mutex::new(context): free and not poisoned.
MutexNew == [holder |-> None, poisoned |-> FALSE]

Init ==
    /\ pc = "idle"
    /\ calls = <<>>
    /\ scenario = None
    /\ writer = <<>>
    /\ genResult = None
    /\ xml_content = None
    /\ parseResult = None
    /\ mutex = MutexNew
    /\ context = "empty"
    /\ threads = [t \in Threads |-> NotInvoked]
    /\ emitted = <<>>

\* generate_xml_from_state(scenario) is entered: a new Writer over an empty buffer.
BeginGenerate(m) ==
    /\ pc' = "writing"
    /\ calls' = Append(calls, "generate")
    /\ scenario' = Some(m)
    /\ writer' = <<>>
    /\ genResult' = None
    /\ UNCHANGED <<xml_content, parseResult>>
    /\ UNCHANGED appVars

GenerateFromInput ==
    /\ pc = "idle" /\ calls = <<>>
    /\ \E m \in ScenarioInputs : BeginGenerate(m)

GenerateFromParsed ==
    /\ pc = "returned" /\ calls = <<"parse">>
    /\ Unwrap(parseResult).ok
    /\ BeginGenerate(Unwrap(Unwrap(parseResult).value))

\* The next writer.write_event(..).map_err(map_err)? succeeds.
WriteEvent ==
    /\ pc = "writing"
    /\ LET events == GenerateEvents(Unwrap(scenario))
       IN  /\ Len(writer) < Len(events)
           /\ writer' = Append(writer, events[Len(writer) + 1])
    /\ UNCHANGED <<pc, calls, scenario, genResult, xml_content, parseResult>>
    /\ UNCHANGED appVars

\* A faulty error path: the bytes written so far are returned as the document.
WriteErrorPartial ==
    /\ pc = "writing"
    /\ Len(writer) < Len(GenerateEvents(Unwrap(scenario)))
    /\ genResult' = Some(Ok(writer))
    /\ writer' = <<>>
    /\ pc' = "returned"
    /\ UNCHANGED <<calls, scenario, xml_content, parseResult>>
    /\ UNCHANGED appVars

\* The next write returns Err: `?` leaves the function with the message, and
\* the Writer with its buffer is dropped.
WriteError ==
    /\ pc = "writing"
    /\ Len(writer) < Len(GenerateEvents(Unwrap(scenario)))
    /\ genResult' = Some(Err("write error"))
    /\ writer' = <<>>
    /\ pc' = "returned"
    /\ UNCHANGED <<calls, scenario, xml_content, parseResult>>
    /\ UNCHANGED appVars

\* writer.into_inner().into_inner(), String::from_utf8(result): every byte
\* written came from a &str, so the buffer is valid UTF-8.
GenerateReturn ==
    /\ pc = "writing"
    /\ Len(writer) = Len(GenerateEvents(Unwrap(scenario)))
    /\ genResult' = Some(Ok(writer))
    /\ writer' = <<>>
    /\ pc' = "returned"
    /\ UNCHANGED <<calls, scenario, xml_content, parseResult>>
    /\ UNCHANGED appVars

\* parse_xml_to_state(xml_content), the whole call.
Parse(doc) ==
    /\ \E seed \in UuidSeeds : parseResult' = Some(parse_xml_to_state(doc, seed))
    /\ xml_content' = Some(doc)
    /\ calls' = Append(calls, "parse")
    /\ pc' = "returned"
    /\ UNCHANGED <<scenario, writer, genResult>>
    /\ UNCHANGED appVars

ParseDocument ==
    /\ pc = "idle" /\ calls = <<>>
    /\ \E doc \in DocumentInputs : Parse(doc)

ParseGenerated ==
    /\ pc = "returned" /\ calls = <<"generate">>
    /\ Unwrap(genResult).ok
    /\ Parse(Unwrap(Unwrap(genResult).value))

\* The caller hands the same document to parse_xml_to_state once more.
ParseAgain ==
    /\ pc = "returned" /\ calls = <<"parse">>
    /\ Parse(Unwrap(xml_content))

Next ==
    \/ GenerateFromInput
    \/ GenerateFromParsed
    \/ WriteEvent
    \/ WriteError
    \/ GenerateReturn
    \/ ParseDocument
    \/ ParseGenerated
    \/ ParseAgain

Spec == Init /\ [][Next]_vars

---------------------------------------------------------------------------
(* The application shell (lib.rs).  One FersContext lives in a Mutex in    *)
(* Tauri's managed state.  The four scenario commands lock it on the       *)
(* thread that serves the invocation; run_simulation and generate_kml      *)
(* spawn a thread that locks it, and return at once.  A thread's `at` is   *)
(* "idle" (not invoked), "locking" (before state.lock()), "operating"      *)
(* (inside the FersContext method, holding the guard), "emitting" (the     *)
(* match on the result) or "done".                                         *)

ForegroundCommands ==
    {"load_scenario_from_xml_file", "get_scenario_as_json",
     "get_scenario_as_xml", "update_scenario_from_json"}
BackgroundCommands == {"run_simulation", "generate_kml"}

\* What a scenario file or a JSON document of the frontend may hold, and
\* where a KML file may go.
Contents == {"s1", "s2"}
OutputPaths == {"a.kml", "b.kml"}

\* The argument a command takes: filepath, json or output_path.
Arguments(cmd) ==
    CASE cmd = "load_scenario_from_xml_file" -> Contents
      [] cmd = "update_scenario_from_json" -> Contents
      [] cmd = "generate_kml" -> OutputPaths
      [] OTHER -> {""}

\* The messages of a failed FersContext method and of a poisoned lock.
OperationError == "operation failed"
PoisonError == "poisoned lock: another task failed inside"

\* A scenario command arrives and its handler starts on a thread of its own.
InvokeCommand(t) ==
    /\ threads[t].at = "idle"
    /\ \E cmd \in ForegroundCommands : \E arg \in Arguments(cmd) :
           threads' = [threads EXCEPT ![t] =
               [NotInvoked EXCEPT !.cmd = cmd, !.arg = arg, !.at = "locking"]]
    /\ UNCHANGED <<mutex, context, emitted>>
    /\ UNCHANGED transcoderVars

\* std::thread::spawn(..) and Ok(()): the handler returns while the thread it
\* spawned has not yet asked for the lock.
Spawn(t, cmd, arg) ==
    /\ threads[t].at = "idle"
    /\ threads' = [threads EXCEPT ![t] =
           [NotInvoked EXCEPT !.cmd = cmd, !.arg = arg, !.at = "locking",
                              !.returned = Some(Ok(<<>>))]]
    /\ UNCHANGED <<mutex, context, emitted>>
    /\ UNCHANGED transcoderVars

run_simulation(t) == Spawn(t, "run_simulation", "")

generate_kml(t) == \E output_path \in OutputPaths : Spawn(t, "generate_kml", output_path)

\* A lock that lets every caller in.
MutexFreeUnguarded == TRUE

\* Mutex::lock blocks until no thread holds the guard.
MutexFree == mutex.holder = None

\* state.lock().map_err(|e| e.to_string()): Ok(guard), or the PoisonError's
\* text when a thread panicked while it held the guard.  A command leaves with
\* the text through `?`; a spawned thread keeps it as its result.
Lock(t) ==
    /\ threads[t].at = "locking"
    /\ MutexFree
    /\ IF mutex.poisoned
       THEN /\ threads' = [threads EXCEPT ![t] =
                   IF @.cmd \in BackgroundCommands
                   THEN [@ EXCEPT !.at = "emitting", !.result = Some(Err(PoisonError))]
                   ELSE [@ EXCEPT !.at = "done", !.result = Some(Err(PoisonError)),
                                  !.returned = Some(Err(PoisonError))]]
            /\ UNCHANGED mutex
       ELSE /\ threads' = [threads EXCEPT ![t].at = "operating"]
            /\ mutex' = [mutex EXCEPT !.holder = Some(t)]
    /\ UNCHANGED <<context, emitted>>
    /\ UNCHANGED transcoderVars

\* The value a FersContext method returns when it succeeds.
OperationValue(cmd, ctx) ==
    IF cmd \in {"get_scenario_as_json", "get_scenario_as_xml"} THEN ctx ELSE <<>>

\* The scenario the FersContext holds after a method that succeeded.
OperationContext(cmd, arg, ctx) ==
    IF cmd \in {"load_scenario_from_xml_file", "update_scenario_from_json"}
    THEN arg ELSE ctx

\* A method call whose guard outlives the statement: the lock stays taken.
ContextOperationKeepsGuard(t) ==
    /\ threads[t].at = "operating"
    /\ mutex.holder = Some(t)
    /\ \E ok \in BOOLEAN :
         LET th == threads[t]
             res == IF ok THEN Ok(OperationValue(th.cmd, context))
                    ELSE Err(OperationError)
         IN  /\ context' = IF ok THEN OperationContext(th.cmd, th.arg, context)
                           ELSE context
             /\ threads' = [threads EXCEPT ![t] =
                    IF th.cmd \in BackgroundCommands
                    THEN [@ EXCEPT !.at = "emitting", !.result = Some(res)]
                    ELSE [@ EXCEPT !.at = "done", !.result = Some(res),
                                   !.returned = Some(res)]]
    /\ UNCHANGED <<mutex, emitted>>
    /\ UNCHANGED transcoderVars

\* The FersContext method returns, Ok or Err, and the guard is dropped.  A
\* command returns the result to the frontend; a spawned thread goes on to
\* the match on it.
ContextOperation(t) ==
    /\ threads[t].at = "operating"
    /\ mutex.holder = Some(t)
    /\ \E ok \in BOOLEAN :
         LET th == threads[t]
             res == IF ok THEN Ok(OperationValue(th.cmd, context))
                    ELSE Err(OperationError)
         IN  /\ context' = IF ok THEN OperationContext(th.cmd, th.arg, context)
                           ELSE context
             /\ threads' = [threads EXCEPT ![t] =
                    IF th.cmd \in BackgroundCommands
                    THEN [@ EXCEPT !.at = "emitting", !.result = Some(res)]
                    ELSE [@ EXCEPT !.at = "done", !.result = Some(res),
                                   !.returned = Some(res)]]
    /\ mutex' = [mutex EXCEPT !.holder = None]
    /\ UNCHANGED emitted
    /\ UNCHANGED transcoderVars

\* A match whose error arm emits nothing.
TerminalEventsOkOnly(t, cmd, arg, result) ==
    IF result.ok
    THEN <<[event |-> IF cmd = "run_simulation" THEN "simulation-complete"
                      ELSE "kml-generation-complete",
            payload |-> IF cmd = "run_simulation" THEN <<>> ELSE arg,
            thread |-> t]>>
    ELSE <<>>

\* match result { Ok(_) => emit(<complete>, ..), Err(e) => emit(<error>, e) }
TerminalEvents(t, cmd, arg, result) ==
    IF cmd = "run_simulation"
    THEN IF result.ok
         THEN <<[event |-> "simulation-complete", payload |-> <<>>, thread |-> t]>>
         ELSE <<[event |-> "simulation-error", payload |-> result.err, thread |-> t]>>
    ELSE IF result.ok
         THEN <<[event |-> "kml-generation-complete", payload |-> arg, thread |-> t]>>
         ELSE <<[event |-> "kml-generation-error", payload |-> result.err, thread |-> t]>>

\* The spawned thread emits its event and ends.
Emit(t) ==
    /\ threads[t].at = "emitting"
    /\ emitted' = emitted \o TerminalEvents(t, threads[t].cmd, threads[t].arg,
                                            Unwrap(threads[t].result))
    /\ threads' = [threads EXCEPT ![t].at = "done"]
    /\ UNCHANGED <<mutex, context>>
    /\ UNCHANGED transcoderVars

\* What a thread that has been started does next.
ThreadStep(t) == Lock(t) \/ ContextOperation(t) \/ Emit(t)

AppNext ==
    \/ \E t \in Threads : InvokeCommand(t)
    \/ \E t \in Threads : run_simulation(t)
    \/ \E t \in Threads : generate_kml(t)
    \/ \E t \in Threads : Lock(t)
    \/ \E t \in Threads : ContextOperation(t)
    \/ \E t \in Threads : Emit(t)

\* Every started thread is scheduled again: the operating system runs each
\* runnable thread, an unlock wakes a waiter, and every FersContext method
\* returns.
AppSpec == Init /\ [][AppNext]_vars /\ \A t \in Threads : WF_vars(ThreadStep(t))

---------------------------------------------------------------------------
(* Properties.  What the callers can observe once a call has returned.     *)

LastCall == IF calls = <<>> THEN "" ELSE calls[Len(calls)]

\* generate_xml_from_state has returned Ok: the model it was given and the
\* document it returned.
Generated == pc = "returned" /\ LastCall = "generate" /\ Unwrap(genResult).ok
GeneratedFrom == Unwrap(scenario)
GeneratedDoc == Unwrap(Unwrap(genResult).value)

\* parse_xml_to_state has returned: the document it was given, its result,
\* and the model inside an Ok result.
Parsed == pc = "returned" /\ LastCall = "parse"
ParsedOk == Parsed /\ Unwrap(parseResult).ok
ParsedDoc == Unwrap(xml_content)
ParsedModel == Unwrap(Unwrap(parseResult).value)

\* The (identifier, name) pairs of the assets in the three asset lists.
AssetPairs(m) ==
    {<<m.pulses[i].id, m.pulses[i].name>> : i \in DOMAIN m.pulses}
    \cup {<<m.timings[i].id, m.timings[i].name>> : i \in DOMAIN m.timings}
    \cup {<<m.antennas[i].id, m.antennas[i].name>> : i \in DOMAIN m.antennas}

\* The names of the assets a reference points at: empty for None and for an
\* identifier no asset carries.
RefNames(m, ref) ==
    IF IsNone(ref) THEN {}
    ELSE {q[2] : q \in {r \in AssetPairs(m) : r[1] = Unwrap(ref)}}

Resolves(m, ref) == RefNames(m, ref) # {}

\* The reference fields a component has.
RefFields(c) ==
    CASE c.type = "transmitter" -> {"antennaId", "pulseId", "timingId"}
      [] c.type = "monostatic" -> {"antennaId", "pulseId", "timingId"}
      [] c.type = "receiver" -> {"antennaId", "timingId"}
      [] OTHER -> {}

AllResolve(m) ==
    \A i \in DOMAIN m.platforms :
        \A f \in RefFields(m.platforms[i].component) :
            Resolves(m, m.platforms[i].component[f])

\* A model with every synthetic identifier blanked and every reference
\* replaced by the names it links to.
WithoutIds(items) == [i \in DOMAIN items |-> [items[i] EXCEPT !.id = ""]]

LinkedComponent(m, c) ==
    [f \in DOMAIN c |-> IF f \in RefFields(c) THEN RefNames(m, c[f]) ELSE c[f]]

LinkedRotation(r) ==
    IF r.type = "path" THEN [r EXCEPT !.waypoints = WithoutIds(@)] ELSE r

Linked(m) ==
    [globalParameters |-> m.globalParameters,
     pulses |-> WithoutIds(m.pulses),
     timings |-> [i \in DOMAIN m.timings |->
                     [m.timings[i] EXCEPT !.id = "", !.noiseEntries = WithoutIds(@)]],
     antennas |-> WithoutIds(m.antennas),
     platforms |-> [i \in DOMAIN m.platforms |->
                      [m.platforms[i] EXCEPT
                          !.id = "",
                          !.motionPath.waypoints = WithoutIds(@),
                          !.rotation = LinkedRotation(@),
                          !.component = LinkedComponent(m, @)]]]

\* C1.  Round trip model -> XML -> model: when every reference of the model
\* resolves, parsing the generated document succeeds and yields a model
\* equal to the original in every field but the synthetic identifiers, each
\* reference linking to the asset of the same name.
RoundTripModel ==
    (Parsed /\ calls = <<"generate", "parse">> /\ AllResolve(GeneratedFrom))
        => /\ Unwrap(parseResult).ok
           /\ Linked(ParsedModel) = Linked(GeneratedFrom)

\* The events of a document that belong to a noise_entry element, and the
\* noise entries themselves.
InNoiseEntry(doc, k) ==
    \E i \in 1 .. k :
        /\ doc[i].type = "Start" /\ doc[i].name = "noise_entry"
        /\ \A j \in i .. (k - 1) : ~(doc[j].type = "End" /\ doc[j].name = "noise_entry")

NoiseEntryAt(doc, i) ==
    SubSeq(doc, i, CHOOSE j \in i .. Len(doc) :
                       /\ doc[j].type = "End" /\ doc[j].name = "noise_entry"
                       /\ \A l \in i .. (j - 1) :
                              ~(doc[l].type = "End" /\ doc[l].name = "noise_entry"))

NoiseEntryStarts(doc) ==
    {i \in DOMAIN doc : doc[i].type = "Start" /\ doc[i].name = "noise_entry"}

OutsideNoise(doc) ==
    LET ks == Ascending({k \in DOMAIN doc : ~InNoiseEntry(doc, k)})
    IN [n \in DOMAIN ks |-> doc[ks[n]]]

\* The same elements, attributes and values; noise entries may be reordered.
SameUpToNoiseOrder(d, e) ==
    /\ OutsideNoise(d) = OutsideNoise(e)
    /\ \A i \in NoiseEntryStarts(d) \cup NoiseEntryStarts(e) :
           LET entry == IF i \in NoiseEntryStarts(d) THEN NoiseEntryAt(d, i)
                        ELSE NoiseEntryAt(e, i)
           IN Cardinality({j \in NoiseEntryStarts(d) : NoiseEntryAt(d, j) = entry})
              = Cardinality({j \in NoiseEntryStarts(e) : NoiseEntryAt(e, j) = entry})

NamesOf(doc, tag) ==
    {EvAttr(doc[k], "name") : k \in {j \in DOMAIN doc : IsTag(doc[j], tag)}}

\* Every transmitter and receiver names an antenna, a pulse and a timing
\* source that the document defines.
ReferencesConform(doc) ==
    \A k \in DOMAIN doc :
        /\ IsTag(doc[k], "transmitter") \/ IsTag(doc[k], "receiver")
              => /\ EvAttr(doc[k], "antenna") \in NamesOf(doc, "antenna")
                 /\ EvAttr(doc[k], "timing") \in NamesOf(doc, "timing")
        /\ IsTag(doc[k], "transmitter")
              => EvAttr(doc[k], "pulse") \in NamesOf(doc, "pulse")

\* C2.  Round trip XML -> model -> XML: for a document the parser accepts
\* and whose references name assets of the document, generating from the
\* parsed model gives back the same elements, attributes and values, up to
\* the order of noise entries.
RoundTripDocument ==
    (Generated /\ calls = <<"parse", "generate">> /\ ReferencesConform(ParsedDoc))
        => SameUpToNoiseOrder(ParsedDoc, GeneratedDoc)

\* The transmitters and receivers of a model in platform order, and their
\* start tags in document order.
RadioComponents(m) ==
    SelectSeq([i \in DOMAIN m.platforms |-> m.platforms[i].component] \o <<>>,
              LAMBDA c : c.type \in {"transmitter", "receiver"})

RadioTags(doc) ==
    SelectSeq(doc, LAMBDA ev : IsTag(ev, "transmitter") \/ IsTag(ev, "receiver"))

\* The attribute carries the name of an asset with the referenced identifier
\* when there is one, and is missing otherwise.
RefWritten(m, ev, key, ref) ==
    IF Resolves(m, ref)
    THEN IsSome(EvAttr(ev, key)) /\ Unwrap(EvAttr(ev, key)) \in RefNames(m, ref)
    ELSE IsNone(EvAttr(ev, key))

\* C3.  Reference resolution on serialize: each transmitter and receiver is
\* written with its antenna, pulse and timing attribute holding the name of
\* the asset whose identifier the reference holds when some asset list has
\* such an asset, and without the attribute when the reference is None or
\* its identifier is in none of the three lists.
ReferenceResolutionOnSerialize ==
    Generated =>
        LET m == GeneratedFrom
            comps == RadioComponents(m)
            tags == RadioTags(GeneratedDoc)
        IN /\ Len(tags) = Len(comps)
           /\ \A i \in DOMAIN comps :
                 /\ tags[i].name = comps[i].type
                 /\ RefWritten(m, tags[i], "antenna", comps[i].antennaId)
                 /\ RefWritten(m, tags[i], "timing", comps[i].timingId)
                 /\ IF comps[i].type = "transmitter"
                    THEN RefWritten(m, tags[i], "pulse", comps[i].pulseId)
                    ELSE IsNone(EvAttr(tags[i], "pulse"))

\* A transmitter was written whose antenna resolves and whose pulse dangles.
ResolvedAndDanglingWritten ==
    /\ Generated
    /\ \E i \in DOMAIN RadioComponents(GeneratedFrom) :
          LET c == RadioComponents(GeneratedFrom)[i]
              ev == RadioTags(GeneratedDoc)[i]
          IN /\ c.type = "transmitter"
             /\ Resolves(GeneratedFrom, c.antennaId) /\ IsSome(EvAttr(ev, "antenna"))
             /\ IsSome(c.pulseId) /\ ~Resolves(GeneratedFrom, c.pulseId)
             /\ IsNone(c.timingId)

\* The platform elements of a document, as elements of its tree.
PlatformElements(doc) == Child(Unwrap(ReadTree(doc).root), "platform")

RotationShape(el) ==
    {tag \in {"fixedrotation", "rotationpath"} : Len(Child(el, tag)) > 0}

ComponentShape(el) ==
    {tag \in {"monostatic", "transmitter", "receiver", "target"} :
        Len(Child(el, tag)) > 0}

\* C4.  Variant exhaustiveness: each Rotation and each PlatformComponent
\* variant is written in a shape of its own (no component element for None
\* only), and parsing the generated document yields the same variants.
VariantShapes ==
    /\ Generated =>
          LET m == GeneratedFrom
              els == PlatformElements(GeneratedDoc)
          IN \A i \in DOMAIN m.platforms :
                LET rot == m.platforms[i].rotation
                    comp == m.platforms[i].component
                IN /\ RotationShape(els[i]) =
                        {IF rot.type = "fixed" THEN "fixedrotation" ELSE "rotationpath"}
                   /\ comp.type = "none" <=> ComponentShape(els[i]) = {}
                   /\ comp.type \in {"transmitter", "receiver", "target"}
                         => ComponentShape(els[i]) = {comp.type}
    /\ (ParsedOk /\ calls = <<"generate", "parse">>) =>
          \A i \in DOMAIN GeneratedFrom.platforms :
              /\ ParsedModel.platforms[i].rotation.type
                     = GeneratedFrom.platforms[i].rotation.type
              /\ ParsedModel.platforms[i].component.type
                     = GeneratedFrom.platforms[i].component.type

\* An absent optional field leaves no child element / no attribute.
OmittedElement(field, el, tag) == IsNone(field) => Len(Child(el, tag)) = 0
OmittedAttribute(field, el, key) == IsNone(field) => IsNone(Attr(el, key))

OmittedInTiming(t, el) ==
    /\ OmittedElement(t.freqOffset, el, "freq_offset")
    /\ OmittedElement(t.randomFreqOffsetStdev, el, "random_freq_offset_stdev")
    /\ OmittedElement(t.phaseOffset, el, "phase_offset")
    /\ OmittedElement(t.randomPhaseOffsetStdev, el, "random_phase_offset_stdev")

OmittedInAntenna(a, el) ==
    /\ OmittedAttribute(a.filename, el, "filename")
    /\ OmittedElement(a.efficiency, el, "efficiency")
    /\ OmittedElement(a.alpha, el, "alpha")
    /\ OmittedElement(a.beta, el, "beta")
    /\ OmittedElement(a.gamma, el, "gamma")
    /\ OmittedElement(a.azscale, el, "azscale")
    /\ OmittedElement(a.elscale, el, "elscale")
    /\ OmittedElement(a.diameter, el, "diameter")

\* `el` is the platform element the component was written into.
OmittedInComponent(c, el) ==
    CASE c.type = "transmitter" ->
            \A t \in {Child(el, "transmitter")[j] : j \in DOMAIN Child(el, "transmitter")} :
                /\ OmittedAttribute(c.antennaId, t, "antenna")
                /\ OmittedAttribute(c.pulseId, t, "pulse")
                /\ OmittedAttribute(c.timingId, t, "timing")
      [] c.type = "receiver" ->
            \A r \in {Child(el, "receiver")[j] : j \in DOMAIN Child(el, "receiver")} :
                /\ OmittedAttribute(c.antennaId, r, "antenna")
                /\ OmittedAttribute(c.timingId, r, "timing")
                /\ OmittedElement(c.noiseTemperature, r, "noise_temp")
      [] c.type = "target" ->
            \A t \in {Child(el, "target")[j] : j \in DOMAIN Child(el, "target")} :
                /\ \A r \in {Child(t, "rcs")[j] : j \in DOMAIN Child(t, "rcs")} :
                       /\ OmittedAttribute(c.rcs_filename, r, "filename")
                       /\ OmittedElement(c.rcs_value, r, "value")
                /\ \A n \in {Child(t, "model")[j] : j \in DOMAIN Child(t, "model")} :
                       OmittedElement(c.rcs_k, n, "k")
      [] c.type = "monostatic" ->
            \A k \in (el.i + 1) .. el.last :
                /\ IsNone(c.noiseTemperature) => ~IsTag(el.doc[k], "noise_temp")
                /\ IsNone(c.antennaId) => IsNone(EvAttr(el.doc[k], "antenna"))
                /\ IsNone(c.pulseId) => IsNone(EvAttr(el.doc[k], "pulse"))
                /\ IsNone(c.timingId) => IsNone(EvAttr(el.doc[k], "timing"))
      [] OTHER -> TRUE

\* C5.  Optional-field omission: for every optional field of the model that
\* is None, the generated document has no element and no attribute for it.
OptionalFieldOmission ==
    Generated =>
        LET m == GeneratedFrom
            root == Unwrap(ReadTree(GeneratedDoc).root)
        IN /\ \A el \in {Child(root, "parameters")[j] :
                            j \in DOMAIN Child(root, "parameters")} :
                 /\ OmittedElement(m.globalParameters.simSamplingRate, el, "simSamplingRate")
                 /\ OmittedElement(m.globalParameters.random_seed, el, "randomseed")
           /\ Len(Child(root, "pulse")) = Len(m.pulses)
           /\ \A i \in DOMAIN m.pulses :
                 OmittedAttribute(m.pulses[i].filename, Child(root, "pulse")[i], "filename")
           /\ Len(Child(root, "timing")) = Len(m.timings)
           /\ \A i \in DOMAIN m.timings :
                 OmittedInTiming(m.timings[i], Child(root, "timing")[i])
           /\ Len(Child(root, "antenna")) = Len(m.antennas)
           /\ \A i \in DOMAIN m.antennas :
                 OmittedInAntenna(m.antennas[i], Child(root, "antenna")[i])
           /\ Len(Child(root, "platform")) = Len(m.platforms)
           /\ \A i \in DOMAIN m.platforms :
                 OmittedInComponent(m.platforms[i].component, Child(root, "platform")[i])

\* A document was generated from a timing source with one offset set and
\* another absent, the first written and the second not.
AbsentOffsetOmitted ==
    /\ Generated
    /\ Len(GeneratedFrom.timings) = 1
    /\ IsNone(GeneratedFrom.timings[1].freqOffset)
    /\ IsSome(GeneratedFrom.timings[1].phaseOffset)
    /\ \E k \in DOMAIN GeneratedDoc : IsTag(GeneratedDoc[k], "phase_offset")
    /\ \A k \in DOMAIN GeneratedDoc : ~IsTag(GeneratedDoc[k], "freq_offset")

\* The start tag of the innermost element still open before event k of a
\* sequence of written events; 0 when no element is open.
InnermostOpen(doc, k) ==
    LET depth == OpenAfter(doc, k - 1)
        open == {i \in 1 .. (k - 1) :
                    doc[i].type = "Start" /\ OpenAfter(doc, i - 1) = depth - 1}
    IN IF depth <= 0 \/ open = {} THEN 0
       ELSE CHOOSE i \in open : \A j \in open : j <= i

\* C6.  Well-formed nesting: at every point of generate_xml_from_state the
\* end tag just written has the name of the innermost start tag still open
\* (so it is never written with no element open), and a document returned
\* with Ok has every element closed.
WellFormedNesting ==
    /\ (pc = "writing" /\ writer # <<>> /\ writer[Len(writer)].type = "End") =>
          LET k == Len(writer)
              open == InnermostOpen(writer, k)
          IN open > 0 /\ writer[open].name = writer[k].name
    /\ Generated => OpenAfter(GeneratedDoc, Len(GeneratedDoc)) = 0

\* The writer has just closed a noise entry, three elements deep.
NestedEndWritten ==
    /\ pc = "writing" /\ writer # <<>>
    /\ writer[Len(writer)] = EndEv("noise_entry")
    /\ OpenAfter(writer, Len(writer)) = 2

\* A complete document: declaration, doctype, and the simulation element
\* from its start tag through its end tag, which is the last thing written.
Complete(doc) ==
    /\ Len(doc) >= 4
    /\ doc[1].type = "Decl" /\ doc[2].type = "DocType"
    /\ doc[3].type = "Start" /\ doc[3].name = "simulation"
    /\ doc[Len(doc)] = EndEv("simulation")
    /\ \A k \in 3 .. (Len(doc) - 1) : OpenAfter(doc, k) > 0
    /\ OpenAfter(doc, Len(doc)) = 0

\* C7.  The serializer is total and never returns partial output: a call
\* returns either Ok with a complete document that holds every asset and
\* platform of the model, or an error with no document text; nothing is
\* returned before the call has ended.
SerializerAllOrNothing ==
    /\ pc = "writing" => IsNone(genResult)
    /\ (pc = "returned" /\ LastCall = "generate") =>
          LET r == Unwrap(genResult)
          IN IF r.ok
             THEN /\ IsSome(r.value) /\ r.err = ""
                  /\ Complete(Unwrap(r.value))
                  /\ LET root == Unwrap(ReadTree(Unwrap(r.value)).root)
                     IN /\ Len(Child(root, "parameters")) = 1
                        /\ Len(Child(root, "pulse")) = Len(GeneratedFrom.pulses)
                        /\ Len(Child(root, "timing")) = Len(GeneratedFrom.timings)
                        /\ Len(Child(root, "antenna")) = Len(GeneratedFrom.antennas)
                        /\ Len(Child(root, "platform")) = Len(GeneratedFrom.platforms)
             ELSE IsNone(r.value) /\ r.err # ""

\* A scenario with two platforms was serialized and the call returned its
\* complete document.
CompleteDocumentReturned ==
    /\ Generated
    /\ Len(GeneratedFrom.platforms) = 2
    /\ Complete(GeneratedDoc)
    /\ Len(PlatformElements(GeneratedDoc)) = 2

\* What the Xml* structs read from an element, by the element's tag: the
\* child elements that must occur once, those that may occur once, those
\* that may repeat, and the attributes that must be there.
RequiredChildren(tag) ==
    CASE tag = "simulation" -> {"parameters"}
      [] tag = "parameters" ->
            {"starttime", "endtime", "rate", "c", "adc_bits", "oversample", "export"}
      [] tag = "pulse" -> {"power", "carrier"}
      [] tag = "timing" -> {"frequency"}
      [] tag = "noise_entry" -> {"alpha", "weight"}
      [] tag = "platform" -> {"motionpath"}
      [] tag = "positionwaypoint" -> {"x", "y", "altitude", "time"}
      [] tag = "fixedrotation" ->
            {"startazimuth", "startelevation", "azimuthrate", "elevationrate"}
      [] tag = "transmitter" -> {"prf"}
      [] tag = "receiver" -> {"window_skip", "window_length", "prf"}
      [] tag = "target" -> {"rcs"}
      [] OTHER -> {}

OptionalChildren(tag) ==
    CASE tag = "parameters" -> {"simSamplingRate", "randomseed"}
      [] tag = "timing" ->
            {"freq_offset", "random_freq_offset_stdev", "phase_offset",
             "random_phase_offset_stdev"}
      [] tag = "antenna" ->
            {"efficiency", "alpha", "beta", "gamma", "azscale", "elscale", "diameter"}
      [] tag = "platform" -> {"fixedrotation", "transmitter", "receiver", "target"}
      [] tag = "receiver" -> {"noise_temp"}
      [] tag = "target" -> {"model"}
      [] tag = "rcs" -> {"value"}
      [] tag = "model" -> {"k"}
      [] OTHER -> {}

RepeatedChildren(tag) ==
    CASE tag = "simulation" -> {"pulse", "timing", "antenna", "platform"}
      [] tag = "timing" -> {"noise_entry"}
      [] tag = "motionpath" -> {"positionwaypoint"}
      [] OTHER -> {}

RequiredAttributes(tag) ==
    CASE tag = "simulation" -> {"name"}
      [] tag = "export" -> {"binary", "csv", "xml"}
      [] tag = "pulse" -> {"name", "type"}
      [] tag = "timing" -> {"name"}
      [] tag = "antenna" -> {"name", "pattern"}
      [] tag = "platform" -> {"name"}
      [] tag = "motionpath" -> {"interpolation"}
      [] tag = "transmitter" -> {"name", "antenna", "pulse", "timing"}
      [] tag = "receiver" -> {"name", "antenna", "timing"}
      [] tag = "target" -> {"name"}
      [] tag = "rcs" -> {"type"}
      [] tag = "model" -> {"type"}
      [] OTHER -> {}

\* The fields that are structs themselves; every other field is a number.
StructTags ==
    {"parameters", "export", "pulse", "timing", "noise_entry", "antenna", "platform",
     "motionpath", "positionwaypoint", "fixedrotation", "transmitter", "receiver",
     "target", "rcs", "model"}

\* The struct an element is read as: the document element is the
\* XmlSimulation whatever its name.
ReadAs(doc, parent, k) == IF parent[k] = 0 THEN "simulation" ELSE doc[k].name

\* The element starting at k is one the structs read: the document element,
\* or a field of an element that is read.
RECURSIVE IsRead(_, _, _)
IsRead(doc, parent, k) ==
    /\ doc[k].type \in {"Start", "Empty"}
    /\ \/ parent[k] = 0
       \/ /\ IsRead(doc, parent, parent[k])
          /\ LET p == ReadAs(doc, parent, parent[k])
             IN doc[k].name \in RequiredChildren(p) \cup OptionalChildren(p)
                                  \cup RepeatedChildren(p)

ChildCount(doc, parent, k, tag) ==
    Cardinality({j \in (k + 1) .. Len(doc) :
                    parent[j] = k /\ doc[j].type \in {"Start", "Empty"}
                    /\ doc[j].name = tag})

\* Some element that is read lacks a required child element or attribute.
LacksRequired(doc, parent) ==
    \E k \in DOMAIN doc :
        /\ IsRead(doc, parent, k)
        /\ \/ \E c \in RequiredChildren(ReadAs(doc, parent, k)) :
                 ChildCount(doc, parent, k, c) = 0
           \/ \E a \in RequiredAttributes(ReadAs(doc, parent, k)) :
                 IsNone(EvAttr(doc[k], a))

\* Some element that is read holds twice a field that may occur once.
RepeatsField(doc, parent) ==
    \E k \in DOMAIN doc :
        /\ IsRead(doc, parent, k)
        /\ \E c \in RequiredChildren(ReadAs(doc, parent, k))
                      \cup OptionalChildren(ReadAs(doc, parent, k)) :
               ChildCount(doc, parent, k, c) > 1

\* Some value that is read does not parse as the type of its field.
HasUnparsableValue(doc, parent) ==
    \E k \in DOMAIN doc :
        /\ IsRead(doc, parent, k)
        /\ \/ /\ parent[k] # 0 /\ doc[k].name \notin StructTags
              /\ IF doc[k].name = "randomseed"
                 THEN IsNone(ParseU64(ElementAt(doc, parent, k).text))
                 ELSE IsNone(ParseNum(ElementAt(doc, parent, k).text))
           \/ /\ doc[k].name = "export"
              /\ \E a \in {"binary", "csv", "xml"} :
                     IsSome(EvAttr(doc[k], a)) /\ IsNone(ParseBool(Unwrap(EvAttr(doc[k], a))))

\* The field names of the model's structs (scenario.rs).
ScenarioStateFields == {"globalParameters", "pulses", "timings", "antennas", "platforms"}
GlobalParametersFields ==
    {"id", "type", "simulation_name", "start", "end", "rate", "simSamplingRate", "c",
     "random_seed", "adc_bits", "oversample_ratio", "export"}
PulseFields == {"id", "type", "name", "pulseType", "power", "carrier", "filename"}
TimingFields ==
    {"id", "type", "name", "frequency", "freqOffset", "randomFreqOffsetStdev",
     "phaseOffset", "randomPhaseOffsetStdev", "noiseEntries"}
AntennaFields ==
    {"id", "type", "name", "pattern", "filename", "efficiency", "alpha", "beta",
     "gamma", "azscale", "elscale", "diameter"}
PlatformFields == {"id", "type", "name", "motionPath", "rotation", "component"}
RotationFields(r) ==
    IF r.type = "fixed"
    THEN {"type", "startAzimuth", "startElevation", "azimuthRate", "elevationRate"}
    ELSE {"type", "interpolation", "waypoints"}
ComponentFields(c) ==
    CASE c.type = "none" -> {"type"}
      [] c.type = "monostatic" ->
            {"type", "name", "radarType", "window_skip", "window_length", "prf",
             "antennaId", "pulseId", "timingId", "noiseTemperature", "noDirectPaths",
             "noPropagationLoss"}
      [] c.type = "transmitter" ->
            {"type", "name", "radarType", "prf", "antennaId", "pulseId", "timingId"}
      [] c.type = "receiver" ->
            {"type", "name", "window_skip", "window_length", "prf", "antennaId",
             "timingId", "noiseTemperature", "noDirectPaths", "noPropagationLoss"}
      [] c.type = "target" ->
            {"type", "name", "rcs_type", "rcs_value", "rcs_filename", "rcs_model", "rcs_k"}
      [] OTHER -> {}

\* A model with every field of every struct in it, holding one asset and one
\* platform for each such element of the document.
CompleteModel(m, doc) ==
    /\ DOMAIN m = ScenarioStateFields
    /\ DOMAIN m.globalParameters = GlobalParametersFields
    /\ Len(m.pulses) = Cardinality({k \in DOMAIN doc : IsTag(doc[k], "pulse")})
    /\ Len(m.timings) = Cardinality({k \in DOMAIN doc : IsTag(doc[k], "timing")})
    /\ Len(m.antennas) = Cardinality({k \in DOMAIN doc : IsTag(doc[k], "antenna")})
    /\ Len(m.platforms) = Cardinality({k \in DOMAIN doc : IsTag(doc[k], "platform")})
    /\ \A i \in DOMAIN m.pulses : DOMAIN m.pulses[i] = PulseFields
    /\ \A i \in DOMAIN m.timings : DOMAIN m.timings[i] = TimingFields
    /\ \A i \in DOMAIN m.antennas : DOMAIN m.antennas[i] = AntennaFields
    /\ \A i \in DOMAIN m.platforms :
           /\ DOMAIN m.platforms[i] = PlatformFields
           /\ DOMAIN m.platforms[i].rotation = RotationFields(m.platforms[i].rotation)
           /\ DOMAIN m.platforms[i].component = ComponentFields(m.platforms[i].component)

\* The returned value is a complete model with no error, or an error
\* message with no model.
ModelOrError(r, doc) ==
    IF r.ok THEN IsSome(r.value) /\ r.err = "" /\ CompleteModel(Unwrap(r.value), doc)
    ELSE IsNone(r.value) /\ r.err # ""

AssetNamesOf(doc) ==
    {Unwrap(n) : n \in {o \in NamesOf(doc, "pulse") \cup NamesOf(doc, "timing")
                                 \cup NamesOf(doc, "antenna") : IsSome(o)}}

IdsNamed(m, name) == {q[1] : q \in {r \in AssetPairs(m) : r[2] = name}}

\* The reference read from attribute `key` of element `el`: None when the
\* attribute names no asset of the document, the identifier of an asset of
\* that name otherwise.
RefRead(m, el, key, ref) ==
    LET name == Unwrap(Attr(el, key))
    IN IF name \in AssetNamesOf(el.doc)
       THEN IsSome(ref) /\ Unwrap(ref) \in IdsNamed(m, name)
       ELSE IsNone(ref)

\* Some transmitter or receiver of the document names an asset the document
\* does not define.
NamesUnknownAsset(doc) ==
    \E k \in DOMAIN doc :
        /\ IsTag(doc[k], "transmitter") \/ IsTag(doc[k], "receiver")
        /\ \E key \in {"antenna", "pulse", "timing"} :
               /\ IsSome(EvAttr(doc[k], key))
               /\ Unwrap(EvAttr(doc[k], key)) \notin AssetNamesOf(doc)

\* C9.  Lenient resolution on deserialize: a transmitter's or receiver's
\* antenna, pulse or timing attribute that names no asset of the document
\* gives None for that reference, every other reference of every platform
\* is resolved as if the unknown name were not there, and the unknown name
\* does not make the conversion fail.
LenientResolutionOnDeserialize ==
    /\ ParsedOk =>
          LET m == ParsedModel
              els == PlatformElements(ParsedDoc)
          IN \A i \in DOMAIN m.platforms :
                LET c == m.platforms[i].component
                IN /\ c.type = "transmitter" =>
                         LET el == Child(els[i], "transmitter")[1]
                         IN /\ RefRead(m, el, "antenna", c.antennaId)
                            /\ RefRead(m, el, "pulse", c.pulseId)
                            /\ RefRead(m, el, "timing", c.timingId)
                   /\ c.type = "receiver" =>
                         LET el == Child(els[i], "receiver")[1]
                         IN /\ RefRead(m, el, "antenna", c.antennaId)
                            /\ RefRead(m, el, "timing", c.timingId)
    /\ (Parsed /\ NamesUnknownAsset(ParsedDoc)) =>
          Unwrap(parseResult).ok = from_str(ParsedDoc).ok

\* A document with two platforms, whose transmitter names an unknown
\* antenna, was parsed: that reference is None, the transmitter's pulse and
\* the receiver's references are set.
UnknownNameParsed ==
    /\ ParsedOk /\ NamesUnknownAsset(ParsedDoc)
    /\ Len(ParsedModel.platforms) = 2
    /\ ParsedModel.platforms[1].component.type = "transmitter"
    /\ IsNone(ParsedModel.platforms[1].component.antennaId)
    /\ IsSome(ParsedModel.platforms[1].component.pulseId)
    /\ ParsedModel.platforms[2].component.type = "receiver"
    /\ IsSome(ParsedModel.platforms[2].component.antennaId)
    /\ IsSome(ParsedModel.platforms[2].component.timingId)

\* The radio components of a model with a reference that is None or names
\* no asset.
HasUnresolved(m) ==
    \E i \in DOMAIN m.platforms :
        /\ m.platforms[i].component.type \in {"transmitter", "receiver"}
        /\ \E f \in RefFields(m.platforms[i].component) :
               ~Resolves(m, m.platforms[i].component[f])

\* C10.  A scenario with a dangling or unset reference is still loadable:
\* when a transmitter or receiver of the model has a reference that is None
\* or names no asset, the generated document is accepted by
\* parse_xml_to_state, and the parsed component has None for that reference.
DanglingReferenceLoadable ==
    (Parsed /\ calls = <<"generate", "parse">> /\ HasUnresolved(GeneratedFrom)) =>
        /\ Unwrap(parseResult).ok
        /\ \A i \in DOMAIN GeneratedFrom.platforms :
               LET c == GeneratedFrom.platforms[i].component
               IN \A f \in RefFields(c) :
                      ~Resolves(GeneratedFrom, c[f]) =>
                          IsNone(ParsedModel.platforms[i].component[f])

\* The names of a kind of asset that the document defines exactly once
\* among all its pulses, timing sources and antennas.
AssetNameCount(doc, name) ==
    Cardinality({k \in DOMAIN doc :
                    /\ IsTag(doc[k], "pulse") \/ IsTag(doc[k], "timing")
                       \/ IsTag(doc[k], "antenna")
                    /\ EvAttr(doc[k], "name") = Some(name)})

DefinedOnce(doc, tag, attr) ==
    /\ attr \in NamesOf(doc, tag)
    /\ IsSome(attr) /\ AssetNameCount(doc, Unwrap(attr)) = 1

\* The transmitter or receiver element `el` names assets of the right kind,
\* each defined once.
NamesDefinedAssets(el) ==
    /\ DefinedOnce(el.doc, "antenna", Attr(el, "antenna"))
    /\ DefinedOnce(el.doc, "timing", Attr(el, "timing"))
    /\ el.doc[el.i].name = "transmitter" => DefinedOnce(el.doc, "pulse", Attr(el, "pulse"))

\* The single transmitter or receiver element of a platform element: a
\* sequence of length 0 when the platform has none or has both.
RadioElement(el) ==
    IF Len(Child(el, "transmitter")) + Len(Child(el, "receiver")) # 1 THEN <<>>
    ELSE Child(el, "transmitter") \o Child(el, "receiver")

Determinism ==
    /\ [](Generated => GeneratedDoc = GenerateEvents(GeneratedFrom))
    /\ [][(LastCall = "parse" /\ calls' = Append(calls, "parse")
              /\ xml_content' = xml_content)
            => parseResult' = parseResult]_vars

---------------------------------------------------------------------------
(* The application shell: who holds the FersContext, and what the frontend *)
(* hears of a background command.                                          *)

\* The threads inside a FersContext method.
Operating == {t \in Threads : threads[t].at = "operating"}

Background(t) == threads[t].cmd \in BackgroundCommands

\* C13.  Mutual exclusion on the simulation context: at most one thread, a
\* scenario command's or a background command's, is inside a FersContext
\* method at any time, and while a thread stays inside its method no other
\* thread changes the scenario the context holds.
MutualExclusion ==
    /\ [](Cardinality(Operating) <= 1)
    /\ [](\A t \in Operating : mutex.holder = Some(t))
    /\ [][\A t \in Threads :
             (threads[t].at = "operating" /\ threads'[t].at = "operating")
                 => context' = context]_vars

\* A simulation is in progress while a scenario command waits for the lock.
CommandWaitsForSimulation ==
    \E t, u \in Threads :
        /\ threads[t].cmd = "run_simulation" /\ threads[t].at = "operating"
        /\ threads[u].cmd = "update_scenario_from_json" /\ threads[u].at = "locking"

\* The events thread t has emitted.
EventsOf(t) == SelectSeq(emitted, LAMBDA e : e.thread = t)

\* Thread t has emitted the one event its result calls for.
Reported(t) ==
    LET th == threads[t]
        res == Unwrap(th.result)
        ev == EventsOf(t)[1]
    IN  /\ Len(EventsOf(t)) = 1
        /\ IsSome(th.result)
        /\ IF th.cmd = "run_simulation"
           THEN IF res.ok
                THEN ev.event = "simulation-complete"
                ELSE ev.event = "simulation-error" /\ ev.payload = res.err
           ELSE IF res.ok
                THEN ev.event = "kml-generation-complete" /\ ev.payload = th.arg
                ELSE ev.event = "kml-generation-error" /\ ev.payload = res.err

---------------------------------------------------------------------------
(* Components and antennas, in both directions.                            *)

\* A transmitter, receiver or monostatic component of the model references
\* an identifier that no pulse, timing source or antenna has.
HasDangling(m) ==
    \E i \in DOMAIN m.platforms :
        LET c == m.platforms[i].component
        IN \E f \in RefFields(c) : IsSome(c[f]) /\ ~Resolves(m, c[f])

\* C15.  A dangling reference is a structural error: a call of
\* generate_xml_from_state on a model in which a transmitter, receiver or
\* monostatic component references an identifier that is not in the asset
\* lists returns an error, and so does a call of parse_xml_to_state on a
\* document whose transmitter or receiver names an asset it does not define.
DanglingReferenceIsError ==
    /\ (pc = "returned" /\ LastCall = "generate" /\ HasDangling(GeneratedFrom))
           => ~Unwrap(genResult).ok
    /\ (Parsed /\ NamesUnknownAsset(ParsedDoc)) => ~Unwrap(parseResult).ok

\* C16.  Rotation on deserialize: every platform of a parsed model has a
\* Rotation::Fixed, never a Rotation::Path; it carries the startazimuth,
\* startelevation, azimuthrate and elevationrate of the platform element's
\* fixedrotation child when there is one, and four zeros when there is none,
\* a rotationpath child or not.
RotationOnDeserialize ==
    ParsedOk =>
        /\ Len(ParsedModel.platforms) = Len(PlatformElements(ParsedDoc))
        /\ \A i \in DOMAIN ParsedModel.platforms :
               LET el == PlatformElements(ParsedDoc)[i]
                   rot == ParsedModel.platforms[i].rotation
                   fr == Child(el, "fixedrotation")
               IN  /\ rot.type = "fixed"
                   /\ IF Len(fr) > 0
                      THEN rot = FixedRotationOf(NumField(fr[1], "startazimuth"),
                                                 NumField(fr[1], "startelevation"),
                                                 NumField(fr[1], "azimuthrate"),
                                                 NumField(fr[1], "elevationrate"))
                      ELSE rot = FixedRotationOf(0, 0, 0, 0)

\* A platform element with a rotationpath of two waypoints and no
\* fixedrotation has been parsed to a zeroed Rotation::Fixed.
RotationPathReadAsZeros ==
    /\ ParsedOk
    /\ \E i \in DOMAIN ParsedModel.platforms :
           LET el == PlatformElements(ParsedDoc)[i]
           IN  /\ Len(Child(el, "fixedrotation")) = 0
               /\ Len(Child(el, "rotationpath")) = 1
               /\ Len(Child(Child(el, "rotationpath")[1], "rotationwaypoint")) = 2
               /\ ParsedModel.platforms[i].rotation = FixedRotationOf(0, 0, 0, 0)

\* The transmitter, receiver and target children a platform element has.
ReadableComponents(el) ==
    {tag \in {"transmitter", "receiver", "target"} : Len(Child(el, tag)) > 0}

\* C17.  Component on deserialize: a platform element with exactly one of
\* transmitter, receiver and target is parsed to the PlatformComponent of
\* that kind, and a platform element with none of them to
\* PlatformComponent::None.
ComponentOnDeserialize ==
    ParsedOk =>
        \A i \in DOMAIN ParsedModel.platforms :
            LET kinds == ReadableComponents(PlatformElements(ParsedDoc)[i])
                c == ParsedModel.platforms[i].component
            IN  /\ kinds = {} => c.type = "none"
                /\ \A tag \in kinds : kinds = {tag} => c.type = tag

\* A document with a transmitter on its first platform and a receiver on its
\* second has been parsed to a Transmitter and a Receiver.
TransmitterAndReceiverRead ==
    /\ ParsedOk
    /\ Len(ParsedModel.platforms) = 2
    /\ ReadableComponents(PlatformElements(ParsedDoc)[1]) = {"transmitter"}
    /\ ReadableComponents(PlatformElements(ParsedDoc)[2]) = {"receiver"}
    /\ ParsedModel.platforms[1].component.type = "transmitter"
    /\ ParsedModel.platforms[2].component.type = "receiver"

\* The component element `c` of a transmitter, receiver or monostatic carries
\* the component's name and prf and the names its references resolve to.
CarriesComponent(m, c, el) ==
    /\ Attr(el, "name") = Some(c.name)
    /\ Len(Child(el, "prf")) = 1 /\ Child(el, "prf")[1].text = NumToString(c.prf)
    /\ c.type \in {"receiver", "monostatic"} =>
           /\ Len(Child(el, "window_skip")) = 1
           /\ Child(el, "window_skip")[1].text = NumToString(c.window_skip)
           /\ Len(Child(el, "window_length")) = 1
           /\ Child(el, "window_length")[1].text = NumToString(c.window_length)
    /\ \A f \in RefFields(c) :
           RefWritten(m, el.doc[el.i],
                      CASE f = "antennaId" -> "antenna"
                        [] f = "pulseId" -> "pulse"
                        [] OTHER -> "timing",
                      c[f])

\* C18.  Component on serialize: a platform whose component is a Receiver, a
\* Transmitter or a Monostatic is written with one component element of that
\* kind, carrying its scalar fields and the names its references resolve to,
\* and only a platform whose component is None is written with no component
\* element.
ComponentOnSerialize ==
    Generated =>
        \A i \in DOMAIN GeneratedFrom.platforms :
            LET c == GeneratedFrom.platforms[i].component
                el == PlatformElements(GeneratedDoc)[i]
            IN  /\ c.type \in {"receiver", "transmitter", "monostatic"} =>
                       /\ ComponentShape(el) = {c.type}
                       /\ Len(Child(el, c.type)) = 1
                       /\ CarriesComponent(GeneratedFrom, c, Child(el, c.type)[1])
                /\ ComponentShape(el) = {} => c.type = "none"

\* An optional number is written as one child element holding its text, and
\* as no child element when it is absent.
OptionalChild(el, tag, field) ==
    IF IsSome(field)
    THEN Len(Child(el, tag)) = 1 /\ Child(el, tag)[1].text = NumToString(Unwrap(field))
    ELSE Len(Child(el, tag)) = 0

\* The target element `el` is the Target `t` as the serializer writes it.
TargetWritten(t, el) ==
    /\ Attr(el, "name") = Some(t.name)
    /\ Len(Child(el, "rcs")) = 1
    /\ LET rcs == Child(el, "rcs")[1]
       IN  /\ Attr(rcs, "type") = Some(t.rcs_type)
           /\ Attr(rcs, "filename") = t.rcs_filename
           /\ OptionalChild(rcs, "value", t.rcs_value)
    /\ IF t.rcs_model # "constant"
       THEN /\ Len(Child(el, "model")) = 1
            /\ Attr(Child(el, "model")[1], "type") = Some(t.rcs_model)
            /\ OptionalChild(Child(el, "model")[1], "k", t.rcs_k)
       ELSE Len(Child(el, "model")) = 0

\* C19.  Target serialization: a Target is written as a target element with
\* an rcs element holding its type, a filename attribute exactly when
\* rcs_filename is present and a value child exactly when rcs_value is
\* present, and with a model element (its type, and k when present) exactly
\* when rcs_model is not "constant"; and a target element without a model
\* child is parsed to rcs_model "constant" with rcs_k None.
TargetSerialization ==
    /\ Generated =>
           \A i \in DOMAIN GeneratedFrom.platforms :
               LET c == GeneratedFrom.platforms[i].component
                   el == PlatformElements(GeneratedDoc)[i]
               IN  c.type = "target" =>
                       /\ Len(Child(el, "target")) = 1
                       /\ TargetWritten(c, Child(el, "target")[1])
    /\ ParsedOk =>
           \A i \in DOMAIN ParsedModel.platforms :
               LET el == PlatformElements(ParsedDoc)[i]
                   c == ParsedModel.platforms[i].component
               IN  (/\ ReadableComponents(el) = {"target"}
                    /\ Len(Child(Child(el, "target")[1], "model")) = 0)
                       => /\ c.type = "target"
                          /\ c.rcs_model = "constant" /\ IsNone(c.rcs_k)

\* A chi-square target with a file name, no value and k = 2 has been written
\* with a filename attribute, no value child and a model element holding k.
FluctuatingTargetWritten ==
    /\ Generated
    /\ \E i \in DOMAIN GeneratedFrom.platforms :
           LET c == GeneratedFrom.platforms[i].component
               el == PlatformElements(GeneratedDoc)[i]
           IN  /\ c.type = "target" /\ c.rcs_model = "chisquare"
               /\ IsSome(c.rcs_filename) /\ IsNone(c.rcs_value) /\ c.rcs_k = Some(2)
               /\ Len(Child(Child(el, "target")[1], "model")) = 1
               /\ Len(Child(Child(Child(el, "target")[1], "model")[1], "k")) = 1
               /\ Len(Child(Child(Child(el, "target")[1], "rcs")[1], "value")) = 0

\* The antenna elements of a document, as elements of its tree.
AntennaElements(doc) == Child(Unwrap(ReadTree(doc).root), "antenna")

PatternParameters == {"alpha", "beta", "gamma", "azscale", "elscale", "diameter"}

\* The parameters that belong to a pattern.
ParametersOf(pattern) ==
    CASE pattern = "sinc" -> {"alpha", "beta", "gamma"}
      [] pattern = "gaussian" -> {"azscale", "elscale"}
      [] pattern \in {"squarehorn", "parabolic"} -> {"diameter"}
      [] OTHER -> {}

\* C20.  Pattern-specific antenna parameters: alpha, beta and gamma are
\* written only for pattern "sinc", azscale and elscale only for "gaussian",
\* diameter only for "squarehorn" and "parabolic"; a parameter of the
\* antenna's pattern is written when the model holds a value for it, and for
\* every other pattern none of the six is written, whatever the model holds.
PatternSpecificParameters ==
    Generated =>
        /\ Len(AntennaElements(GeneratedDoc)) = Len(GeneratedFrom.antennas)
        /\ \A i \in DOMAIN GeneratedFrom.antennas :
               LET a == GeneratedFrom.antennas[i]
                   el == AntennaElements(GeneratedDoc)[i]
               IN  \A tag \in PatternParameters :
                       IF tag \in ParametersOf(a.pattern)
                       THEN OptionalChild(el, tag, a[tag])
                       ELSE Len(Child(el, tag)) = 0

\* A gaussian antenna that holds all six values has been written with
\* azscale and elscale and none of the other four.
GaussianWrittenWithScalesOnly ==
    /\ Generated
    /\ \E i \in DOMAIN GeneratedFrom.antennas :
           LET a == GeneratedFrom.antennas[i]
               el == AntennaElements(GeneratedDoc)[i]
           IN  /\ a.pattern = "gaussian"
               /\ \A tag \in PatternParameters : IsSome(a[tag])
               /\ {tag \in PatternParameters : Len(Child(el, tag)) = 1}
                      = {"azscale", "elscale"}

---------------------------------------------------------------------------
(* Order: of the elements of a document and of the lists of a model.       *)

\* The names of the child elements of `el`, in document order.
ChildTags(el) ==
    LET ks == Ascending({k \in (el.i + 1) .. el.last :
                            /\ el.parent[k] = el.i
                            /\ el.doc[k].type \in {"Start", "Empty"}})
    IN [n \in DOMAIN ks |-> el.doc[ks[n]].name]

Repeat(tag, n) == [i \in 1 .. n |-> tag]

\* The field order inside parameters.
ParameterOrder(p) ==
    <<"starttime", "endtime", "rate", "c">>
    \o (IF IsSome(p.simSamplingRate) THEN <<"simSamplingRate">> ELSE <<>>)
    \o (IF IsSome(p.random_seed) THEN <<"randomseed">> ELSE <<>>)
    \o <<"adc_bits", "oversample", "export">>

\* motionpath, then the rotation, then the component element if one is written.
PlatformOrders ==
    {<<"motionpath", r>> \o c :
        r \in {"fixedrotation", "rotationpath"},
        c \in {<<>>, <<"monostatic">>, <<"transmitter">>, <<"receiver">>, <<"target">>}}

\* C21.  Fixed emission order: in every generated document the children of
\* simulation are parameters, then all pulses, all timings, all antennas and
\* all platforms; the children of parameters are starttime, endtime, rate, c,
\* simSamplingRate and randomseed when present, adc_bits, oversample, export;
\* and the children of each platform are motionpath, rotation, component.
FixedEmissionOrder ==
    Generated =>
        LET m == GeneratedFrom
            root == Unwrap(ReadTree(GeneratedDoc).root)
        IN  /\ ChildTags(root) =
                   <<"parameters">> \o Repeat("pulse", Len(m.pulses))
                   \o Repeat("timing", Len(m.timings))
                   \o Repeat("antenna", Len(m.antennas))
                   \o Repeat("platform", Len(m.platforms))
            /\ ChildTags(Child(root, "parameters")[1]) = ParameterOrder(m.globalParameters)
            /\ \A i \in DOMAIN Child(root, "platform") :
                   ChildTags(Child(root, "platform")[i]) \in PlatformOrders

\* A document with a pulse, a timing, an antenna and two platforms, the second
\* with a receiver, has been generated.
AssetsAndPlatformsWritten ==
    /\ Generated
    /\ Len(GeneratedFrom.pulses) > 0 /\ Len(GeneratedFrom.timings) > 0
    /\ Len(GeneratedFrom.antennas) > 0 /\ Len(GeneratedFrom.platforms) = 2
    /\ ChildTags(PlatformElements(GeneratedDoc)[2])
           = <<"motionpath", "fixedrotation", "receiver">>

\* The texts of the children `tags` of an element, in the order of `tags`.
FieldTexts(el, tags) == [n \in DOMAIN tags |-> Child(el, tags[n])[1].text]

\* The elements `els` are the items of `list`, one for one and in order,
\* each element holding under `tags` the values the item has under `fields`.
WrittenInOrder(els, list, tags, fields) ==
    /\ Len(els) = Len(list)
    /\ \A i \in DOMAIN list :
           FieldTexts(els[i], tags) = [n \in DOMAIN fields |-> NumToString(list[i][fields[n]])]

\* The items of `list` are the elements `els`, one for one and in order.
BuiltInOrder(els, list, tags, fields) ==
    /\ Len(list) = Len(els)
    /\ \A i \in DOMAIN els :
           [n \in DOMAIN fields |-> Some(list[i][fields[n]])]
               = [n \in DOMAIN tags |-> ParseNum(FieldTexts(els[i], tags)[n])]

\* The elements named `tag` under `root` carry the names of `list`, in order.
NamesInOrder(root, tag, list) ==
    /\ Len(Child(root, tag)) = Len(list)
    /\ \A i \in DOMAIN list : Attr(Child(root, tag)[i], "name") = Some(list[i].name)

PositionTags == <<"x", "y", "altitude", "time">>
RotationTags == <<"azimuth", "elevation", "time">>
NoiseTags == <<"alpha", "weight">>

\* Every list of the model `m` corresponds to the elements of `doc`, in order.
AssetsInOrder(doc, m) ==
    LET root == Unwrap(ReadTree(doc).root)
    IN  /\ NamesInOrder(root, "pulse", m.pulses)
        /\ NamesInOrder(root, "timing", m.timings)
        /\ NamesInOrder(root, "antenna", m.antennas)
        /\ NamesInOrder(root, "platform", m.platforms)

---------------------------------------------------------------------------
(* The Reference Table and the identifiers.                                *)

\* The assets of a model in the order the serializer chains them.
Assets(m) == m.pulses \o m.timings \o m.antennas

\* The last asset, in that order, that has the identifier.
LastWithId(m, id) ==
    LET ks == {k \in DOMAIN Assets(m) : Assets(m)[k].id = id}
    IN Assets(m)[CHOOSE k \in ks : \A j \in ks : j <= k]

\* The attribute of a transmitter or receiver that holds a reference field.
RefAttribute(f) ==
    CASE f = "antennaId" -> "antenna" [] f = "pulseId" -> "pulse" [] OTHER -> "timing"

\* C23.  Reference Table build on serialize: the identifier->name table of a
\* call has one entry for each distinct identifier among the pulses, timings
\* and antennas of the model, holding the name of the last asset with that
\* identifier in the order pulses, timings, antennas; and that is the name a
\* reference to the identifier is written with.
ReferenceTableOnSerialize ==
    IsSome(scenario) =>
        LET m == Unwrap(scenario)
            table == id_to_name(m)
        IN  /\ DOMAIN table = {Assets(m)[k].id : k \in DOMAIN Assets(m)}
            /\ \A id \in DOMAIN table : table[id] = LastWithId(m, id).name
            /\ Generated =>
                   \A i \in DOMAIN RadioComponents(m) :
                       LET c == RadioComponents(m)[i]
                       IN \A f \in RefFields(c) :
                              (IsSome(c[f]) /\ Unwrap(c[f]) \in DOMAIN table) =>
                                  EvAttr(RadioTags(GeneratedDoc)[i], RefAttribute(f))
                                      = Some(LastWithId(m, Unwrap(c[f])).name)

\* A pulse named B and a timing named A share the identifier i1, and a
\* transmitter whose pulseId is i1 has been written with pulse="A".
SharedIdentifierWrittenWithLastName ==
    /\ Generated
    /\ Len(GeneratedFrom.pulses) = 1 /\ Len(GeneratedFrom.timings) = 1
    /\ GeneratedFrom.pulses[1].id = "i1" /\ GeneratedFrom.pulses[1].name = "B"
    /\ GeneratedFrom.timings[1].id = "i1" /\ GeneratedFrom.timings[1].name = "A"
    /\ Len(RadioTags(GeneratedDoc)) = 1
    /\ GeneratedFrom.platforms[1].component.type = "transmitter"
    /\ GeneratedFrom.platforms[1].component.pulseId = Some("i1")
    /\ EvAttr(RadioTags(GeneratedDoc)[1], "pulse") = Some("A")

\* The identifiers of the entities of a model: pulses, timings and their
\* noise entries, antennas, platforms and their position waypoints.
EntityIds(m) ==
    [i \in DOMAIN m.pulses |-> m.pulses[i].id]
    \o [i \in DOMAIN m.timings |-> m.timings[i].id]
    \o Flatten([i \in DOMAIN m.timings |->
                   [n \in DOMAIN m.timings[i].noiseEntries |->
                       m.timings[i].noiseEntries[n].id]])
    \o [i \in DOMAIN m.antennas |-> m.antennas[i].id]
    \o [i \in DOMAIN m.platforms |-> m.platforms[i].id]
    \o Flatten([i \in DOMAIN m.platforms |->
                   [w \in DOMAIN m.platforms[i].motionPath.waypoints |->
                       m.platforms[i].motionPath.waypoints[w].id]])

\* Every attribute value and every text of a document.
DocumentTexts(doc) ==
    {doc[k].text : k \in DOMAIN doc}
    \cup UNION {{doc[k].attrs[a][2] : a \in DOMAIN doc[k].attrs} : k \in DOMAIN doc}

\* The identifiers new_v4() can return within one call.
MaxDraws == 12
Synthesized == {NewV4(seed, n) : seed \in UuidSeeds, n \in 1 .. MaxDraws}

\* C24.  Identifier synthesis on deserialize: every pulse, timing, antenna,
\* platform, position waypoint and noise entry of a parsed model has a
\* synthesized identifier; no two of them share one; none occurs in the
\* document; and every antennaId, pulseId and timingId that is not None is
\* the identifier of an asset of the same model.
IdentifierSynthesis ==
    ParsedOk =>
        LET m == ParsedModel
            ids == EntityIds(m)
        IN  /\ \A k \in DOMAIN ids : ids[k] \in Synthesized \ DocumentTexts(ParsedDoc)
            /\ Cardinality({ids[k] : k \in DOMAIN ids}) = Len(ids)
            /\ \A i \in DOMAIN m.platforms :
                   LET c == m.platforms[i].component
                   IN \A f \in RefFields(c) :
                          IsSome(c[f]) =>
                              Unwrap(c[f]) \in {Assets(m)[k].id : k \in DOMAIN Assets(m)}

\* A document with three assets, two platforms and a waypoint has been
\* parsed: six identifiers, and the transmitter's pulseId is the pulse's.
SixIdentifiersSynthesized ==
    /\ ParsedOk
    /\ Len(EntityIds(ParsedModel)) = 6
    /\ Len(ParsedModel.platforms) = 2
    /\ ParsedModel.platforms[1].component.type = "transmitter"
    /\ ParsedModel.platforms[1].component.pulseId = Some(ParsedModel.pulses[1].id)

\* start <= end, adc_bits > 0 and rate > 0.
ValidParameters(p) == p.start <= p.end /\ p.adc_bits > 0 /\ p.rate > 0

\* C25.  GlobalParameters invariant: every model parse_xml_to_state returns,
\* and every model generate_xml_from_state accepts and renders, has
\* start <= end, adc_bits > 0 and rate > 0.
GlobalParametersInvariant ==
    /\ ParsedOk => ValidParameters(ParsedModel.globalParameters)
    /\ Generated => ValidParameters(GeneratedFrom.globalParameters)

\* The asset list a reference field is meant for.
OwnKind(m, f) ==
    CASE f = "antennaId" -> m.antennas [] f = "pulseId" -> m.pulses [] OTHER -> m.timings

\* The last asset, in the order pulses, timings, antennas, that has the name.
LastWithName(m, name) ==
    LET ks == {k \in DOMAIN Assets(m) : Assets(m)[k].name = name}
    IN Assets(m)[CHOOSE k \in ks : \A j \in ks : j <= k]

\* The identifier (or the name) is held by some asset, and by none of `own`.
OfAnotherKind(m, own, field, v) ==
    /\ \E k \in DOMAIN Assets(m) : Assets(m)[k][field] = v
    /\ \A k \in DOMAIN own : own[k][field] # v

\* C26.  Reference resolution ignores asset kind in both directions: a
\* pulseId, antennaId or timingId that is the identifier of an asset of
\* another kind only is written with that asset's name, and a pulse, antenna
\* or timing attribute that names an asset of another kind only is parsed to
\* that asset's identifier, not to None.
ResolutionIgnoresKind ==
    /\ Generated =>
           LET m == GeneratedFrom
           IN \A i \in DOMAIN RadioComponents(m) :
                  LET c == RadioComponents(m)[i]
                  IN \A f \in RefFields(c) :
                         (IsSome(c[f]) /\ OfAnotherKind(m, OwnKind(m, f), "id", Unwrap(c[f])))
                             => EvAttr(RadioTags(GeneratedDoc)[i], RefAttribute(f))
                                    = Some(LastWithId(m, Unwrap(c[f])).name)
    /\ ParsedOk =>
           LET m == ParsedModel
           IN \A i \in DOMAIN m.platforms :
                  LET c == m.platforms[i].component
                      els == Child(PlatformElements(ParsedDoc)[i], c.type)
                  IN \A f \in RefFields(c) :
                         LET name == Attr(els[1], RefAttribute(f))
                         IN (IsSome(name)
                             /\ OfAnotherKind(m, OwnKind(m, f), "name", Unwrap(name)))
                                => c[f] = Some(LastWithName(m, Unwrap(name)).id)

\* A transmitter whose pulseId is the antenna's identifier has been written
\* with the antenna's name as its pulse, and parsing that document has given
\* it the parsed antenna's identifier as pulseId.
AntennaTakenForPulse ==
    /\ ParsedOk /\ calls = <<"generate", "parse">>
    /\ Len(GeneratedFrom.platforms) = 1 /\ Len(GeneratedFrom.antennas) = 1
    /\ LET c == GeneratedFrom.platforms[1].component
       IN  /\ c.type = "transmitter"
           /\ c.pulseId = Some(GeneratedFrom.antennas[1].id)
           /\ \A k \in DOMAIN GeneratedFrom.pulses : Some(GeneratedFrom.pulses[k].id) # c.pulseId
    /\ EvAttr(RadioTags(ParsedDoc)[1], "pulse") = Some(GeneratedFrom.antennas[1].name)
    /\ ParsedModel.platforms[1].component.pulseId = Some(ParsedModel.antennas[1].id)

\* The number of assets of a model that have the name.
NameCount(m, name) ==
    Cardinality({k \in DOMAIN Assets(m) : Assets(m)[k].name = name})

\* C27.  Name collisions on deserialize: every pulse, timing and antenna
\* element becomes an asset of its own with an identifier of its own, also
\* when assets share a name; and a reference to a name that two or more
\* assets have is the identifier of the last of them in the order pulses,
\* timings, antennas, each in document order.
NameCollisionsOnDeserialize ==
    ParsedOk =>
        LET m == ParsedModel
        IN  /\ AssetsInOrder(ParsedDoc, m)
            /\ Cardinality({Assets(m)[k].id : k \in DOMAIN Assets(m)}) = Len(Assets(m))
            /\ \A i \in DOMAIN m.platforms :
                   LET c == m.platforms[i].component
                       els == Child(PlatformElements(ParsedDoc)[i], c.type)
                   IN \A f \in RefFields(c) :
                          LET name == Attr(els[1], RefAttribute(f))
                          IN (IsSome(name) /\ NameCount(m, Unwrap(name)) >= 2)
                                 => c[f] = Some(LastWithName(m, Unwrap(name)).id)

\* A document with two pulses named P1 has been parsed to two pulses, and the
\* transmitter's pulse="P1" to the identifier of the second.
SecondOfTwoPulsesReferenced ==
    /\ ParsedOk
    /\ Len(ParsedModel.pulses) = 2
    /\ ParsedModel.pulses[1].name = ParsedModel.pulses[2].name
    /\ ParsedModel.pulses[1].id # ParsedModel.pulses[2].id
    /\ Len(ParsedModel.platforms) = 1
    /\ ParsedModel.platforms[1].component.type = "transmitter"
    /\ ParsedModel.platforms[1].component.pulseId = Some(ParsedModel.pulses[2].id)

\* The component element the transformer looks at first.
Preferred(kinds) ==
    IF "transmitter" \in kinds THEN "transmitter"
    ELSE IF "receiver" \in kinds THEN "receiver" ELSE "target"

\* C28.  Component precedence on deserialize: a platform element with more
\* than one of transmitter, receiver and target is parsed to the Transmitter
\* if it has a transmitter, else to the Receiver if it has a receiver, else
\* to the Target, wherever the elements stand; the other component elements
\* are dropped and the call returns a model.
ComponentPrecedence ==
    /\ (Parsed /\ ParsedDoc \in MultiComponentDocuments) => Unwrap(parseResult).ok
    /\ ParsedOk =>
           \A i \in DOMAIN ParsedModel.platforms :
               LET el == PlatformElements(ParsedDoc)[i]
                   kinds == ReadableComponents(el)
                   c == ParsedModel.platforms[i].component
               IN  Cardinality(kinds) >= 2 =>
                       /\ c.type = Preferred(kinds)
                       /\ Some(c.name) = Attr(Child(el, Preferred(kinds))[1], "name")

\* A platform element holding a target, a receiver and a transmitter, in
\* that order, has been parsed to a Transmitter.
TransmitterPreferredAmongThree ==
    /\ ParsedOk
    /\ Len(ParsedModel.platforms) = 1
    /\ ChildTags(PlatformElements(ParsedDoc)[1])
           = <<"motionpath", "fixedrotation", "target", "receiver", "transmitter">>
    /\ ParsedModel.platforms[1].component.type = "transmitter"

---------------------------------------------------------------------------
(* The application shell: the lock and the notification.                   *)

=============================================================================
